---- MODULE Spec2Model ----
(***************************************************************************)
(* NYC property-compliance pipeline (propply-ai).                          *)
(*                                                                         *)
(* Spec      process_property of complianceNYC.py: address resolution,     *)
(*           the per-domain multi-key searches, device grouping and the    *)
(*           scorer that assembles the ComplianceRecord.                   *)
(* SpecRisk  the two places that derive and persist a risk level:          *)
(*           get_risk_level / save_compliance_data_to_db (propply_app.py)  *)
(*           and get_property_compliance / _store_compliance_summary       *)
(*           (nyc_property_finder_enhanced.py, nyc_data_sync_service.py).  *)
(*                                                                         *)
(* Conventions.  Python None is NoneVal for string fields and the empty    *)
(* sequence for digit strings (only the truthiness of those is ever        *)
(* tested).  A key missing from a dict is the value Absent.  Scores are    *)
(* exact rationals [num, den]: the float arithmetic of the code is         *)
(* modelled by the real numbers it approximates.                           *)
(***************************************************************************)
EXTENDS Integers, Sequences, FiniteSets, TLC

\* ------------------------------------------------------------------ bounds
MaxHpd == 1          \* most rows of the target building in an HPD response
MaxDob == 7          \* most rows of the target building in a DOB response
MaxDevices == 3      \* most elevator devices of the target building
MaxPermits == 1      \* most electrical permits of the target building
MaxBoilers == 1      \* most boiler devices of the target building
MaxOpenViolations == 6    \* most open violations the sync analysis counts
MaxEquipmentIssues == 2   \* most elevators / boilers with issues it counts
MaxOpenComplaints == 2    \* most open 311 complaints it counts
MaxCallers == 2           \* threads that call the shared client at once
MaxRequests == 4          \* requests followed through the rate limiter
MaxClock == 3             \* ticks of the clock that are followed

\* --------------------------------------------------------------- constants
NoneVal == "None"
Absent == "<absent>"
TargetBin == "1058037"
OtherBin == "1099999"
TargetBBL == <<1, 0, 1, 6, 4, 2, 0, 0, 2, 9>>
CurrentYear == 2026

\* Characters of a date string: digits are themselves; the others keep
\* their ASCII order around the digits
\* ('-' = 45 < '.' = 46 < '/' = 47 < '0' = 48, '9' = 57 < ':' = 58 < 'T' = 84).
Dash == -3
Dot == -2
Slash == -1
Colon == 10
LetterT == 11

\* ------------------------------------------------------------- Python bits
TruthyStr(s) == s # NoneVal /\ s # Absent /\ s # ""
TruthySeq(s) == Len(s) > 0

RECURSIVE lstrip0(_)
lstrip0(s) == IF Len(s) > 0 /\ Head(s) = 0 THEN lstrip0(Tail(s)) ELSE s

Max0(a) == IF a > 0 THEN a ELSE 0
Min2(a, b) == IF a < b THEN a ELSE b

\* rationals
Rat(n, d) == [num |-> n, den |-> d]
RatLeq(a, b) == a.num * b.den <= b.num * a.den
RatEq(a, b) == a.num * b.den = b.num * a.den

\* get(key, default) on a value that is Absent when the key is missing
Get(v, default) == IF v = Absent THEN default ELSE v

EmptyDict == <<>>

\* d.get(key, default) on a dict modelled as a record
DictGet(d, key, default) == IF key \in DOMAIN d THEN d[key] ELSE default

\* lexicographic order of two strings (character sequences)
RECURSIVE SeqLess(_, _)
SeqLess(a, b) ==
    IF Len(b) = 0 THEN FALSE
    ELSE IF Len(a) = 0 THEN TRUE
    ELSE IF Head(a) < Head(b) THEN TRUE
    ELSE IF Head(a) > Head(b) THEN FALSE
    ELSE SeqLess(Tail(a), Tail(b))

\* ------------------------------------------------------------------- dates
IsDigit(c) == c \in 0..9
Num2(s, i) == 10 * s[i] + s[i + 1]
Num4(s, i) == 1000 * s[i] + 100 * s[i + 1] + 10 * s[i + 2] + s[i + 3]
IsLeap(y) == (y % 4 = 0 /\ y % 100 # 0) \/ y % 400 = 0
DaysInMonth(y, m) ==
    IF m = 2 THEN (IF IsLeap(y) THEN 29 ELSE 28)
    ELSE IF m \in {4, 6, 9, 11} THEN 30 ELSE 31
ValidDate(y, m, d) == y >= 1 /\ m \in 1..12 /\ d >= 1 /\ d <= DaysInMonth(y, m)
NoParse == [ok |-> FALSE, y |-> 0, m |-> 0, d |-> 0]
Parsed(y, m, d) == IF ValidDate(y, m, d) THEN [ok |-> TRUE, y |-> y, m |-> m, d |-> d] ELSE NoParse
\* a datetime as one comparable number
Ord(p) == p.y * 10000 + p.m * 100 + p.d

\* datetime.strptime(s, '%Y?%m?%d') with separator sep, on a 10-character string
strptime_Ymd(s, sep) ==
    IF /\ Len(s) = 10
       /\ s[5] = sep /\ s[8] = sep
       /\ \A i \in {1, 2, 3, 4, 6, 7, 9, 10} : IsDigit(s[i])
    THEN Parsed(Num4(s, 1), Num2(s, 6), Num2(s, 9))
    ELSE NoParse

\* datetime.strptime(s, '%m?%d?%Y') with separator sep, on a 10-character string
strptime_mdY(s, sep) ==
    IF /\ Len(s) = 10
       /\ s[3] = sep /\ s[6] = sep
       /\ \A i \in {1, 2, 4, 5, 7, 8, 9, 10} : IsDigit(s[i])
    THEN Parsed(Num4(s, 7), Num2(s, 1), Num2(s, 4))
    ELSE NoParse

Prefix10(s) == SubSeq(s, 1, Min2(10, Len(s)))

\* the format loop of group_devices_by_id: first format that parses wins
ParseInspectionDate(s) ==
    LET s10 == Prefix10(s)
        a == strptime_mdY(s10, Slash)
        b == strptime_Ymd(s10, Dash)
        c == strptime_mdY(s10, Dash)
    IN  IF a.ok THEN a ELSE IF b.ok THEN b ELSE c

\* --------------------------------------------------------- device grouping
\* A fetched row: id is the value under device_id_field, date the value
\* under date_field (empty when the key is missing).
GroupIndex(groups, id) ==
    IF \E i \in DOMAIN groups : groups[i].device_id = id
    THEN CHOOSE i \in DOMAIN groups : groups[i].device_id = id
    ELSE 0

NewGroup(r) ==
    [device_id |-> r.id,
     device_status |-> Get(r.device_status, "Unknown"),
     inspections |-> <<>>,
     latest_inspection_date |-> 0,
     total_inspections |-> 0,
     filing_status |-> Get(r.filing_status, "Unknown"),
     device_type |-> DictGet(r, "device_type", "Unknown"),
     bin |-> Get(r.bin, "")]

AddInspection(g, r) ==
    LET g1 == [g EXCEPT !.inspections = Append(@, r)]
        p == ParseInspectionDate(r.date)
    IN  IF /\ TruthySeq(r.date)
           /\ p.ok
           /\ (g1.latest_inspection_date = 0 \/ Ord(p) > g1.latest_inspection_date)
        THEN [g1 EXCEPT !.latest_inspection_date = Ord(p),
                        !.device_status = Get(r.device_status, "Unknown"),
                        !.filing_status = Get(r.filing_status, "Unknown")]
        ELSE g1

RECURSIVE GroupFold(_, _)
GroupFold(data, groups) ==
    IF Len(data) = 0 THEN groups
    ELSE LET r == Head(data)
             i == GroupIndex(groups, r.id)
         IN  IF ~TruthyStr(r.id) THEN GroupFold(Tail(data), groups)
             ELSE IF i = 0
                  THEN GroupFold(Tail(data), Append(groups, AddInspection(NewGroup(r), r)))
                  ELSE GroupFold(Tail(data), [groups EXCEPT ![i] = AddInspection(@, r)])

\* list.sort(key=raw date string, reverse=True): stable, descending
RECURSIVE InsertByDate(_, _)
InsertByDate(s, x) ==
    IF Len(s) = 0 THEN <<x>>
    ELSE IF SeqLess(Head(s).date, x.date) THEN <<x>> \o s
    ELSE <<Head(s)>> \o InsertByDate(Tail(s), x)

RECURSIVE SortInspections(_)
SortInspections(s) ==
    IF Len(s) = 0 THEN <<>>
    ELSE InsertByDate(SortInspections(SubSeq(s, 1, Len(s) - 1)), s[Len(s)])

\* result.sort(key=latest_inspection_date, reverse=True): stable, descending
RECURSIVE InsertByLatest(_, _)
InsertByLatest(s, x) ==
    IF Len(s) = 0 THEN <<x>>
    ELSE IF Head(s).latest_inspection_date < x.latest_inspection_date THEN <<x>> \o s
    ELSE <<Head(s)>> \o InsertByLatest(Tail(s), x)

RECURSIVE SortDevices(_)
SortDevices(s) ==
    IF Len(s) = 0 THEN <<>>
    ELSE InsertByLatest(SortDevices(SubSeq(s, 1, Len(s) - 1)), s[Len(s)])

\* The final sort compares the latest_inspection_date values; a device
\* without a parseable date has None there, and None cannot be ordered:
\* with two or more devices the sort raises TypeError.
group_devices_by_id(data) ==
    LET groups == GroupFold(data, <<>>)
        result == [i \in DOMAIN groups |->
                      [groups[i] EXCEPT !.inspections = SortInspections(@),
                                        !.total_inspections = Len(groups[i].inspections)]]
        raises == Len(result) >= 2 /\ \E i \in DOMAIN result : result[i].latest_inspection_date = 0
    IN  [raised |-> raises,
         devices |-> IF raises THEN <<>> ELSE SortDevices(result)]

\* ---------------------------------------------------------------- geocoder
TargetAddress == <<"1662", "PARK", "AVENUE">>

NoIdentifiers ==
    [address |-> <<>>, bin |-> NoneVal, bbl |-> <<>>, borough |-> NoneVal,
     block |-> <<>>, lot |-> <<>>, zip_code |-> NoneVal]

\* what the planning geosearch can answer: no feature (or an error), or one
\* feature whose addendum.pad carries a BIN and a BBL, either possibly missing
GeoSearchResponses ==
    {[features |-> FALSE, bin |-> NoneVal, bbl |-> <<>>]} \cup
    {[features |-> TRUE, bin |-> b, bbl |-> l] : b \in {NoneVal, TargetBin}, l \in {<<>>, TargetBBL}}

borough_map(name) == IF name = "Manhattan" THEN "MANHATTAN" ELSE name

\* NYCPlanningGeoSearchClient.get_property_identifiers, on a response with a feature
geoclient_get_property_identifiers(resp) ==
    LET bbl == resp.bbl
        parse == TruthySeq(bbl) /\ Len(bbl) >= 10
    IN  [address |-> TargetAddress,
         bin |-> resp.bin,
         bbl |-> bbl,
         borough |-> borough_map("Manhattan"),
         block |-> IF parse THEN lstrip0(SubSeq(bbl, 2, 6)) ELSE <<>>,
         lot |-> IF parse THEN lstrip0(SubSeq(bbl, 7, Len(bbl))) ELSE <<>>,
         zip_code |-> "10035"]

\* what the HPD dataset can answer to the fallback query (limit 1)
FallbackResponses ==
    {[rows |-> 0, buildingid |-> NoneVal, boro |-> <<>>, block |-> <<>>, lot |-> <<>>],
     [rows |-> 1, buildingid |-> TargetBin, boro |-> <<1>>, block |-> <<1, 6, 4, 2>>, lot |-> <<2, 9>>]}

\* the PropertyIdentifiers fallback_property_search builds from the matching row
fallback_identifiers(match) ==
    [address |-> TargetAddress,
     bin |-> match.buildingid,
     bbl |-> match.boro \o match.block \o match.lot,
     borough |-> "1",
     block |-> match.block,
     lot |-> match.lot,
     zip_code |-> "10035"]

\* ------------------------------------------------------------ upstream rows
\* A violation row; only its bin matters to the search.
ViolationRow(b) == [bin |-> b]

\* n rows of the target building, followed by one row of the neighbour
\* that shares its lot when there is one (m)
ViolationRows(n, m) ==
    [i \in 1..n |-> ViolationRow(TargetBin)] \o (IF m THEN <<ViolationRow(OtherBin)>> ELSE <<>>)

\* A query keyed on the BIN is answered with rows of that building only; a
\* query on a coarser key also carries the rows of the neighbour, when the
\* lot has one.  An empty answer is also what get_data returns after a
\* timeout or an HTTP error.
ViolationResponses(strategy, counts, m) ==
    {<<>>} \cup
    (IF strategy = "BIN"
     THEN {ViolationRows(n, FALSE) : n \in counts}
     ELSE {ViolationRows(n, m) : n \in counts})

\* how many rows of the target building a response carries: for DOB none,
\* one, two, or as many as it takes for the score to reach its floor
HpdCounts == 0..MaxHpd
DobCounts == {0, 1, 2, MaxDob}

FilterByBin(rows, b) == SelectSeq(rows, LAMBDA r : r.bin = b)

\* ------------------------------------------------------------------- state
VARIABLES
    pc,                 \* position in process_property
    identifiers,        \* PropertyIdentifiers of the run
    neighbour,          \* whether a second building stands on the same lot
    search_strategies,  \* plan of the search in progress
    attempt_idx,        \* 1-based index of the next / current attempt
    attempts,           \* strategies issued so far in the search in progress
    responses,          \* number of responses received in that search
    found_rows,         \* rows the search in progress has accepted
    compliance_data,    \* the dict filled by the gather_* methods
    record,             \* the ComplianceRecord returned
    finder_result,      \* what get_property_compliance returned to the sync
    summary,            \* nyc_compliance_summary row of one property
    rpc,                \* position in the web / sync persistence path
    fn_arg,             \* argument of the function under test
    fn_result,          \* what it returned
    fn_state,           \* "idle", "called" or "returned"
    fetch_log,          \* how each get_data call of the search in progress ended
    db,                 \* the tables sync_property_data writes
    runs,               \* the sync runs: position and locals of each
    upstream,           \* what the city's services answer, the same for every run
    http,               \* the request being served by a web endpoint, and its response
    limiter             \* the rate limiter of the shared client, its callers and the clock

pipelineVars == <<pc, identifiers, neighbour, search_strategies, attempt_idx, attempts,
                  responses, found_rows, compliance_data, record>>
riskVars == <<finder_result, summary, rpc>>
fnVars == <<fn_arg, fn_result, fn_state>>
syncVars == <<db, runs, upstream>>
auxVars == <<fnVars, fetch_log, syncVars, http, limiter>>
vars == <<pc, identifiers, neighbour, search_strategies, attempt_idx, attempts,
          responses, found_rows, compliance_data, record, finder_result, summary, rpc,
          fn_arg, fn_result, fn_state, fetch_log, db, runs, upstream, http, limiter>>

searchVars == <<search_strategies, attempt_idx, attempts, responses, found_rows>>

\* gather_comprehensive_compliance_data: the dict before any domain is gathered
EmptyComplianceData ==
    [hpd_violations_total |-> 0, hpd_violations_active |-> 0,
     hpd_violations_data |-> <<>>, hpd_compliance_score |-> 100,
     dob_violations_total |-> 0, dob_violations_active |-> 0,
     dob_violations_data |-> <<>>, dob_compliance_score |-> 100,
     elevator_inspections |-> <<>>,
     boiler_inspections |-> <<>>,
     electrical_permits |-> <<>>]

\* ComplianceRecord with the dataclass defaults: create_empty_record
create_empty_record(src) ==
    [bin |-> NoneVal, bbl |-> <<>>,
     hpd_violations_total |-> 0, hpd_violations_active |-> 0,
     dob_violations_total |-> 0, dob_violations_active |-> 0,
     elevator_devices_total |-> 0, elevator_devices_active |-> 0,
     boiler_devices_total |-> 0,
     electrical_permits_total |-> 0, electrical_permits_active |-> 0,
     hpd_compliance_score |-> Rat(100, 1),
     dob_compliance_score |-> Rat(100, 1),
     elevator_compliance_score |-> Rat(100, 1),
     electrical_compliance_score |-> Rat(100, 1),
     overall_compliance_score |-> Rat(100, 1),
     hpd_violations_data |-> <<>>, dob_violations_data |-> <<>>,
     elevator_data |-> <<>>, boiler_data |-> <<>>, electrical_data |-> <<>>,
     data_sources |-> src]

\* no row in nyc_compliance_summary yet; written_by names the writer of a row
NoSummary ==
    [present |-> FALSE, compliance_score |-> Rat(0, 1), risk_level |-> "UNKNOWN",
     written_by |-> "none"]

\* no call of get_property_compliance in progress; also Python's empty dict
\* ------------------------------------------------- process_property, step 1
\* get_property_identifiers: the primary geosearch
get_property_identifiers ==
    /\ pc = "start"
    /\ \E resp \in GeoSearchResponses :
          IF resp.features
          THEN /\ identifiers' = geoclient_get_property_identifiers(resp)
               /\ pc' = "gather_hpd"
          ELSE /\ pc' = "fallback"
               /\ UNCHANGED identifiers
    /\ UNCHANGED <<neighbour, searchVars, compliance_data, record, riskVars, auxVars>>

fallback_property_search_unchecked ==
    /\ pc = "fallback"
    /\ \E resp \in FallbackResponses :
          IF resp.rows > 0
          THEN identifiers' = fallback_identifiers(resp)
          ELSE UNCHANGED identifiers
    /\ pc' = "gather_hpd"
    /\ UNCHANGED <<neighbour, searchVars, compliance_data, record, riskVars, auxVars>>

\* fallback_property_search, and process_property's return of the empty
\* record when it finds nothing either
fallback_property_search ==
    /\ pc = "fallback"
    /\ \E resp \in FallbackResponses :
          IF resp.rows > 0
          THEN /\ identifiers' = fallback_identifiers(resp)
               /\ pc' = "gather_hpd"
               /\ UNCHANGED record
          ELSE /\ record' = create_empty_record("FAILED")
               /\ pc' = "done"
               /\ UNCHANGED identifiers
    /\ UNCHANGED <<neighbour, searchVars, compliance_data, riskVars, auxVars>>

\* ---------------------------------------------------- HPD / DOB violations
ViolationStrategies_coarse_first(ids) ==
    (IF TruthySeq(ids.block) /\ TruthySeq(ids.lot) THEN <<"Block/Lot">> ELSE <<>>) \o
    (IF TruthySeq(ids.bbl) THEN <<"BBL">> ELSE <<>>) \o
    (IF TruthyStr(ids.bin) THEN <<"BIN">> ELSE <<>>)

\* search_strategies of gather_hpd_violations and gather_dob_violations
ViolationStrategies(ids) ==
    (IF TruthyStr(ids.bin) THEN <<"BIN">> ELSE <<>>) \o
    (IF TruthySeq(ids.bbl) THEN <<"BBL">> ELSE <<>>) \o
    (IF TruthySeq(ids.block) /\ TruthySeq(ids.lot) THEN <<"Block/Lot">> ELSE <<>>)

\* body of the for-loop once get_data has returned rows: the rows the
\* attempt yields, empty meaning "go on to the next strategy"
AcceptViolations(strategy, rows, ids) ==
    IF Len(rows) > 0
    THEN IF strategy = "Block/Lot" /\ TruthyStr(ids.bin)
         THEN FilterByBin(rows, ids.bin)
         ELSE rows
    ELSE <<>>

\* the score gather_hpd_violations writes to compliance_data
hpd_step_score(a) ==
    IF a = 0 THEN 100
    ELSE IF a <= 5 THEN 85
    ELSE IF a <= 15 THEN 70
    ELSE IF a <= 30 THEN 50
    ELSE 25

\* the score gather_dob_violations writes to compliance_data
dob_step_score(a) ==
    IF a = 0 THEN 100
    ELSE IF a <= 3 THEN 85
    ELSE IF a <= 10 THEN 70
    ELSE IF a <= 20 THEN 50
    ELSE 25

store_hpd_own_total(rows) ==
    [compliance_data EXCEPT
        !.hpd_violations_total = Len(FilterByBin(rows, TargetBin)),
        !.hpd_violations_active = Len(rows),
        !.hpd_violations_data = rows,
        !.hpd_compliance_score = hpd_step_score(Len(rows))]

\* tail of gather_hpd_violations: clean, sort, count, score
store_hpd(rows) ==
    [compliance_data EXCEPT
        !.hpd_violations_total = Len(rows),
        !.hpd_violations_active = Len(rows),
        !.hpd_violations_data = rows,
        !.hpd_compliance_score = hpd_step_score(Len(rows))]

\* tail of gather_dob_violations
store_dob(rows) ==
    [compliance_data EXCEPT
        !.dob_violations_total = Len(rows),
        !.dob_violations_active = Len(rows),
        !.dob_violations_data = rows,
        !.dob_compliance_score = dob_step_score(Len(rows))]

\* the locals of a search: set at the start of a gather_* method, gone
\* when the next one starts
BeginSearch(plan) ==
    /\ search_strategies' = plan
    /\ attempt_idx' = 1
    /\ attempts' = <<>>
    /\ responses' = 0
    /\ found_rows' = <<>>

\* the call of get_data for the current strategy
IssueAttempt(loop, wait) ==
    /\ pc = loop
    /\ attempt_idx <= Len(search_strategies)
    /\ attempts' = Append(attempts, search_strategies[attempt_idx])
    /\ pc' = wait
    /\ UNCHANGED <<identifiers, neighbour, search_strategies, attempt_idx, responses,
                   found_rows, compliance_data, record, riskVars, auxVars>>

gather_hpd_violations ==
    /\ pc = "gather_hpd"
    /\ BeginSearch(ViolationStrategies(identifiers))
    /\ pc' = "hpd_loop"
    /\ UNCHANGED <<identifiers, neighbour, compliance_data, record, riskVars, auxVars>>

hpd_get_data == IssueAttempt("hpd_loop", "hpd_wait")

\* get_data returns; on a usable result the loop breaks and the rest of
\* gather_hpd_violations runs
hpd_response ==
    /\ pc = "hpd_wait"
    /\ \E rows \in ViolationResponses(search_strategies[attempt_idx], HpdCounts, neighbour) :
          LET acc == AcceptViolations(search_strategies[attempt_idx], rows, identifiers)
          IN  /\ responses' = responses + 1
              /\ IF Len(acc) > 0
                 THEN /\ found_rows' = acc
                      /\ compliance_data' = store_hpd(acc)
                      /\ pc' = "gather_dob"
                      /\ UNCHANGED attempt_idx
                 ELSE /\ attempt_idx' = attempt_idx + 1
                      /\ pc' = "hpd_loop"
                      /\ UNCHANGED <<found_rows, compliance_data>>
    /\ UNCHANGED <<identifiers, neighbour, search_strategies, attempts, record, riskVars, auxVars>>

\* every strategy tried without a usable result
hpd_none ==
    /\ pc = "hpd_loop"
    /\ attempt_idx > Len(search_strategies)
    /\ compliance_data' = store_hpd(<<>>)
    /\ pc' = "gather_dob"
    /\ UNCHANGED <<identifiers, neighbour, searchVars, record, riskVars, auxVars>>

gather_dob_violations ==
    /\ pc = "gather_dob"
    /\ BeginSearch(ViolationStrategies(identifiers))
    /\ pc' = "dob_loop"
    /\ UNCHANGED <<identifiers, neighbour, compliance_data, record, riskVars, auxVars>>

dob_get_data == IssueAttempt("dob_loop", "dob_wait")

dob_response ==
    /\ pc = "dob_wait"
    /\ \E rows \in ViolationResponses(search_strategies[attempt_idx], DobCounts, neighbour) :
          LET acc == AcceptViolations(search_strategies[attempt_idx], rows, identifiers)
          IN  /\ responses' = responses + 1
              /\ IF Len(acc) > 0
                 THEN /\ found_rows' = acc
                      /\ compliance_data' = store_dob(acc)
                      /\ pc' = "gather_elevator"
                      /\ UNCHANGED attempt_idx
                 ELSE /\ attempt_idx' = attempt_idx + 1
                      /\ pc' = "dob_loop"
                      /\ UNCHANGED <<found_rows, compliance_data>>
    /\ UNCHANGED <<identifiers, neighbour, search_strategies, attempts, record, riskVars, auxVars>>

dob_none ==
    /\ pc = "dob_loop"
    /\ attempt_idx > Len(search_strategies)
    /\ compliance_data' = store_dob(<<>>)
    /\ pc' = "gather_elevator"
    /\ UNCHANGED <<identifiers, neighbour, searchVars, record, riskVars, auxVars>>

\* ------------------------------------------------------------- equipment
DeviceIds == <<"E1", "E2", "E3", "E4", "E5", "E6">>
PermitIds == <<"P1", "P2", "P3", "P4", "P5", "P6">>
BoilerIds == <<"B1", "B2", "B3", "B4">>

DateNew == <<2, 0, 2, 5, Dash, 0, 5, Dash, 0, 1>>       \* "2025-05-01"
DateOld == <<2, 0, 1, 9, Dash, 0, 1, Dash, 1, 0>>       \* "2019-01-10"

EquipRow(id, dstatus, fstatus, date, b) ==
    [id |-> id, date |-> date, device_status |-> dstatus, filing_status |-> fstatus, bin |-> b]

DeviceStatuses == {"Active", "OUT"}
SeqsUpTo(S, k) == UNION {[1..n -> S] : n \in 0..k}

\* Elevator rows as the API sends them: one row per device of the target
\* building, then one row of the neighbour when there is one (m).
ElevatorRows(statuses, m, b) ==
    [i \in 1..Len(statuses) |-> EquipRow(DeviceIds[i], statuses[i], Absent, DateNew, b)] \o
    (IF m THEN <<EquipRow("X1", "Active", Absent, DateNew, OtherBin)>> ELSE <<>>)

\* the status lists of up to MaxDevices devices, the active ones first
StatusLists ==
    {st \in SeqsUpTo(DeviceStatuses, MaxDevices) :
        \A i, j \in DOMAIN st : (i < j /\ st[j] = "Active") => st[i] = "Active"}

AddressStrategies == {"Address", "Address/AVE", "Address/AVENUE"}

\* the three places gather_elevator_data looks, in order
ElevatorStrategies(ids) ==
    (IF TruthyStr(ids.bin) THEN <<"BIN">> ELSE <<>>) \o
    (IF TruthySeq(ids.block) /\ TruthySeq(ids.lot) THEN <<"Block/Lot">> ELSE <<>>) \o
    (IF Len(ids.address) >= 2 THEN <<"Address", "Address/AVE", "Address/AVENUE">> ELSE <<>>)

\* The BIN query does not select the bin column; the coarser ones do and
\* also carry the neighbour's rows.
ElevatorResponses(strategy, m) ==
    {<<>>} \cup
    (IF strategy = "BIN"
     THEN {ElevatorRows(st, FALSE, Absent) : st \in StatusLists}
     ELSE {ElevatorRows(st, m, TargetBin) : st \in StatusLists})

gather_elevator_data ==
    /\ pc = "gather_elevator"
    /\ BeginSearch(ElevatorStrategies(identifiers))
    /\ pc' = "elev_loop"
    /\ UNCHANGED <<identifiers, neighbour, compliance_data, record, riskVars, auxVars>>

elevator_get_data == IssueAttempt("elev_loop", "elev_wait")

\* get_data returns.  Rows found by block/lot are filtered by BIN when one
\* is known; the others are grouped as they are.  An exception raised by
\* the grouping is swallowed: inside the address loop it moves on to the
\* next pattern, elsewhere it ends the method with an empty list.
elevator_response ==
    /\ pc = "elev_wait"
    /\ \E rows \in ElevatorResponses(search_strategies[attempt_idx], neighbour) :
          LET st == search_strategies[attempt_idx]
              data == IF st = "Block/Lot" /\ TruthyStr(identifiers.bin)
                      THEN FilterByBin(rows, identifiers.bin)
                      ELSE rows
              g == group_devices_by_id(data)
          IN  /\ responses' = responses + 1
              /\ IF Len(data) > 0 /\ ~g.raised
                 THEN /\ found_rows' = data
                      /\ compliance_data' = [compliance_data EXCEPT !.elevator_inspections = g.devices]
                      /\ pc' = "gather_boiler"
                      /\ UNCHANGED attempt_idx
                 ELSE IF Len(data) > 0 /\ st \notin AddressStrategies
                 THEN /\ compliance_data' = [compliance_data EXCEPT !.elevator_inspections = <<>>]
                      /\ pc' = "gather_boiler"
                      /\ UNCHANGED <<attempt_idx, found_rows>>
                 ELSE /\ attempt_idx' = attempt_idx + 1
                      /\ pc' = "elev_loop"
                      /\ UNCHANGED <<found_rows, compliance_data>>
    /\ UNCHANGED <<identifiers, neighbour, search_strategies, attempts, record, riskVars, auxVars>>

elevator_none ==
    /\ pc = "elev_loop"
    /\ attempt_idx > Len(search_strategies)
    /\ compliance_data' = [compliance_data EXCEPT !.elevator_inspections = <<>>]
    /\ pc' = "gather_boiler"
    /\ UNCHANGED <<identifiers, neighbour, searchVars, record, riskVars, auxVars>>

\* Boiler rows: one inspection per boiler, keyed by bin_number only.
BoilerRows(n) == [i \in 1..n |-> EquipRow(BoilerIds[i], Absent, Absent, DateNew, TargetBin)]

\* gather_boiler_data: the single BIN query, grouped by boiler_id
gather_boiler_data ==
    /\ pc = "gather_boiler"
    /\ IF TruthyStr(identifiers.bin)
       THEN \E n \in 0..MaxBoilers :
               LET g == group_devices_by_id(BoilerRows(n))
               IN  compliance_data' =
                      IF n > 0 /\ ~g.raised
                      THEN [compliance_data EXCEPT !.boiler_inspections = g.devices]
                      ELSE compliance_data
       ELSE UNCHANGED compliance_data
    /\ BeginSearch(<<>>)
    /\ pc' = "gather_coo"
    /\ UNCHANGED <<identifiers, neighbour, record, riskVars, auxVars>>

\* Electrical permit rows: per permit a filing status and a filing date,
\* recent permits first (order = filing_date DESC).
PermitStatuses == {"Approved", "Expired"}
PermitKinds ==
    {k \in [status : PermitStatuses, recent : BOOLEAN] : k.status = "Approved" \/ k.recent}
DateSorted(ks) == \A i, j \in DOMAIN ks : (i < j /\ ks[j].recent) => ks[i].recent

PermitRows(ks, m, withBin) ==
    [i \in 1..Len(ks) |->
        EquipRow(PermitIds[i], Absent, ks[i].status,
                 IF ks[i].recent THEN DateNew ELSE DateOld,
                 IF withBin THEN TargetBin ELSE Absent)] \o
    (IF m THEN <<EquipRow("Q1", Absent, "Approved", DateOld, OtherBin)>> ELSE <<>>)

ElectricalStrategies(ids) ==
    (IF TruthyStr(ids.bin) THEN <<"BIN">> ELSE <<>>) \o
    (IF TruthyStr(ids.borough) /\ TruthySeq(ids.block) THEN <<"Borough/Block">> ELSE <<>>)

ElectricalResponses(strategy, m) ==
    {<<>>} \cup
    (IF strategy = "BIN"
     THEN {PermitRows(ks, FALSE, FALSE) : ks \in {k \in SeqsUpTo(PermitKinds, MaxPermits) : DateSorted(k)}}
     ELSE {PermitRows(ks, m, TRUE) : ks \in {k \in SeqsUpTo(PermitKinds, MaxPermits) : DateSorted(k)}})

\* ------------------------------------------------------------------ scorer
ActiveFilingStatuses == {"Approved", "Job in Process", "Active", "Permit Issued"}

elevator_active_count(devices) ==
    Len(SelectSeq(devices, LAMBDA e : e.device_status = "Active"))

electrical_active_count(permits) ==
    Len(SelectSeq(permits, LAMBDA e : e.filing_status \in ActiveFilingStatuses))

\* e.get('filing_date') on an element of compliance_data['electrical_permits']
filing_date_of(e) == IF "filing_date" \in DOMAIN e THEN e.filing_date ELSE <<>>

recent_permits_count(permits) ==
    Len(SelectSeq(permits, LAMBDA e :
            /\ TruthySeq(filing_date_of(e))
            /\ strptime_Ymd(Prefix10(filing_date_of(e)), Dash).y >= CurrentYear - 2))

hpd_score(total, active) == IF total > 0 THEN Max0(100 - active * 10) ELSE 100

dob_score_unclamped(total, active) == IF total > 0 THEN 100 - active * 15 ELSE 100

dob_score(total, active) == IF total > 0 THEN Max0(100 - active * 15) ELSE 100

elevator_score(total, active) == IF total > 0 THEN Rat(active * 100, total) ELSE Rat(100, 1)

electrical_score(total, active, recent) ==
    IF total > 0
    THEN IF recent = 0 THEN 70
         ELSE IF active > 0 THEN 90
         ELSE 100
    ELSE 85

\* hpd * 0.3 + dob * 0.3 + elevator * 0.2 + electrical * 0.2
overall_score(h, d, e, x) ==
    Rat((3 * h + 3 * d + 2 * x) * e.den + 2 * e.num, 10 * e.den)

\* clean_data_for_json on a grouped device: its latest_inspection_date is
\* a date field and is nulled when its year is before 1900
clean_device(e) ==
    [e EXCEPT !.latest_inspection_date = IF @ # 0 /\ @ \div 10000 < 1900 THEN 0 ELSE @]

clean_devices(devices) == [i \in DOMAIN devices |-> clean_device(devices[i])]

create_compliance_record(ids, cd) ==
    LET hpd_total == cd.hpd_violations_total
        hpd_active == cd.hpd_violations_active
        dob_total == cd.dob_violations_total
        dob_active == cd.dob_violations_active
        elevator_total == Len(cd.elevator_inspections)
        elevator_active == elevator_active_count(cd.elevator_inspections)
        boiler_total == Len(cd.boiler_inspections)
        electrical_total == Len(cd.electrical_permits)
        electrical_active == electrical_active_count(cd.electrical_permits)
        h == hpd_score(hpd_total, hpd_active)
        d == dob_score(dob_total, dob_active)
        e == elevator_score(elevator_total, elevator_active)
        x == electrical_score(electrical_total, electrical_active,
                              recent_permits_count(cd.electrical_permits))
    IN  [bin |-> ids.bin, bbl |-> ids.bbl,
         hpd_violations_total |-> hpd_total, hpd_violations_active |-> hpd_active,
         dob_violations_total |-> dob_total, dob_violations_active |-> dob_active,
         elevator_devices_total |-> elevator_total,
         elevator_devices_active |-> elevator_active,
         boiler_devices_total |-> boiler_total,
         electrical_permits_total |-> electrical_total,
         electrical_permits_active |-> electrical_active,
         hpd_compliance_score |-> Rat(h, 1),
         dob_compliance_score |-> Rat(d, 1),
         elevator_compliance_score |-> e,
         electrical_compliance_score |-> Rat(x, 1),
         overall_compliance_score |-> overall_score(h, d, e, x),
         hpd_violations_data |-> cd.hpd_violations_data,
         dob_violations_data |-> cd.dob_violations_data,
         elevator_data |-> clean_devices(cd.elevator_inspections),
         boiler_data |-> clean_devices(cd.boiler_inspections),
         electrical_data |-> clean_devices(cd.electrical_permits),
         data_sources |-> "NYC_Open_Data,NYC_Planning_GeoSearch"]

\* process_property, step 3: the record is built from the gathered dict and
\* returned as soon as the last gather_* method has finished
process_property_return(cd) ==
    /\ record' = create_compliance_record(identifiers, cd)
    /\ pc' = "done"

gather_electrical_permits ==
    /\ pc = "gather_electrical"
    /\ BeginSearch(ElectricalStrategies(identifiers))
    /\ pc' = "elec_loop"
    /\ UNCHANGED <<identifiers, neighbour, compliance_data, record, riskVars, auxVars>>

electrical_get_data == IssueAttempt("elec_loop", "elec_wait")

\* get_data returns: non-empty rows are grouped by filing_number and stored
\* as they are; an exception of the grouping ends the method.  The
\* electrical search is the last one: when it ends process_property builds
\* the record and returns.
electrical_response ==
    /\ pc = "elec_wait"
    /\ \E rows \in ElectricalResponses(search_strategies[attempt_idx], neighbour) :
          LET g == group_devices_by_id(rows)
          IN  /\ responses' = responses + 1
              /\ IF Len(rows) > 0 /\ ~g.raised
                 THEN /\ found_rows' = rows
                      /\ compliance_data' = [compliance_data EXCEPT !.electrical_permits = g.devices]
                      /\ process_property_return(compliance_data')
                      /\ UNCHANGED attempt_idx
                 ELSE IF Len(rows) > 0
                 THEN /\ process_property_return(compliance_data)
                      /\ UNCHANGED <<attempt_idx, found_rows, compliance_data>>
                 ELSE /\ attempt_idx' = attempt_idx + 1
                      /\ pc' = "elec_loop"
                      /\ UNCHANGED <<found_rows, compliance_data, record>>
    /\ UNCHANGED <<identifiers, neighbour, search_strategies, attempts, riskVars, auxVars>>

electrical_none ==
    /\ pc = "elec_loop"
    /\ attempt_idx > Len(search_strategies)
    /\ process_property_return(compliance_data)
    /\ UNCHANGED <<identifiers, neighbour, searchVars, compliance_data, riskVars, auxVars>>

\* gather_certificate_of_occupancy: its result is stored under a key that
\* create_compliance_record never reads
gather_certificate_of_occupancy ==
    /\ pc = "gather_coo"
    /\ pc' = "gather_electrical"
    /\ UNCHANGED <<identifiers, neighbour, searchVars, compliance_data, record, riskVars, auxVars>>

\* --------------------------------------------------------- specification
\* process_property has not been called
InitPipeline ==
    /\ pc = "start"
    /\ identifiers = NoIdentifiers
    /\ neighbour \in BOOLEAN
    /\ search_strategies = <<>>
    /\ attempt_idx = 1
    /\ attempts = <<>>
    /\ responses = 0
    /\ found_rows = <<>>
    /\ compliance_data = EmptyComplianceData
    /\ record = create_empty_record("")

\* no summary row is stored and no request is being served
InitRisk ==
    /\ finder_result = EmptyDict
    /\ summary = NoSummary
    /\ rpc = "idle"

\* no function is under test
InitFn ==
    /\ fn_arg = <<>>
    /\ fn_result = <<>>
    /\ fn_state = "idle"

\* no request has been made
InitFetch == fetch_log = <<>>

\* empty tables, no sync run
EmptyDb == [nyc_properties |-> <<>>, children |-> <<>>, nyc_compliance_summary |-> <<>>]
InitSyncIdle ==
    /\ db = EmptyDb
    /\ runs = <<>>
    /\ upstream = <<>>

\* no request is being served
NoRequest == [stage |-> "idle"]
InitHttp == http = NoRequest

\* a client just constructed, nobody calling it
IdleCaller == [pc |-> "idle", loaded |-> 0, wake |-> 0]
NewClient(app_token) ==
    [app_token |-> app_token, request_count |-> 0, last_request_time |-> 0, clock |-> 0,
     admitted |-> <<>>, callers |-> [t \in 1..MaxCallers |-> IdleCaller]]
InitLimiterIdle == limiter = NewClient(FALSE)

Init == InitPipeline /\ InitRisk /\ InitFn /\ InitFetch /\ InitSyncIdle /\ InitHttp /\ InitLimiterIdle

Next ==
    \/ get_property_identifiers
    \/ fallback_property_search
    \/ gather_hpd_violations
    \/ hpd_get_data
    \/ hpd_response
    \/ hpd_none
    \/ gather_dob_violations
    \/ dob_get_data
    \/ dob_response
    \/ dob_none
    \/ gather_elevator_data
    \/ elevator_get_data
    \/ elevator_response
    \/ elevator_none
    \/ gather_boiler_data
    \/ gather_certificate_of_occupancy
    \/ gather_electrical_permits
    \/ electrical_get_data
    \/ electrical_response
    \/ electrical_none

Spec == Init /\ [][Next]_vars


\* ------------------------------------------------- risk level persistence
\* get_risk_level of propply_app.py
get_risk_level(score) ==
    IF RatLeq(Rat(90, 1), score) THEN "LOW"
    ELSE IF RatLeq(Rat(75, 1), score) THEN "MEDIUM"
    ELSE IF RatLeq(Rat(50, 1), score) THEN "HIGH"
    ELSE "CRITICAL"

\* NYCPropertyFinder._calculate_compliance_score
calculate_compliance_score(open_violations, equipment_issues, open_complaints) ==
    Max0(100 - Min2(open_violations * 5, 40)
             - Min2(equipment_issues * 3, 20)
             - Min2(open_complaints * 2, 20))

\* the risk level get_property_compliance derives from that score
finder_risk_level(compliance_score) ==
    IF compliance_score >= 90 THEN "LOW"
    ELSE IF compliance_score >= 70 THEN "MEDIUM"
    ELSE IF compliance_score >= 50 THEN "HIGH"
    ELSE "CRITICAL"

\* the dict the scorer sees when the searches found h HPD rows, d DOB rows
\* and the elevator devices of the status list st
GatheredData(h, d, st) ==
    [EmptyComplianceData EXCEPT
        !.hpd_violations_total = h, !.hpd_violations_active = h,
        !.dob_violations_total = d, !.dob_violations_active = d,
        !.elevator_inspections = group_devices_by_id(ElevatorRows(st, FALSE, Absent)).devices]

\* the web endpoint: process_property has returned a record, which is about
\* to be saved
api_generate_compliance_report ==
    /\ rpc = "idle"
    /\ \E h \in 0..MaxHpd, d \in 0..MaxDob, st \in StatusLists :
          record' = create_compliance_record(NoIdentifiers, GatheredData(h, d, st))
    /\ rpc' = "web_save"
    /\ UNCHANGED <<pc, identifiers, neighbour, searchVars, compliance_data,
                   finder_result, summary, auxVars>>

\* save_compliance_data_to_db: the upsert of the summary row
save_compliance_data_to_db ==
    /\ rpc = "web_save"
    /\ summary' = [present |-> TRUE,
                   compliance_score |-> record.overall_compliance_score,
                   risk_level |-> get_risk_level(record.overall_compliance_score),
                   written_by |-> "web"]
    /\ record' = create_empty_record("")
    /\ rpc' = "idle"
    /\ UNCHANGED <<pc, identifiers, neighbour, searchVars, compliance_data, finder_result,
                   auxVars>>

\* sync_property_data, step 6: get_property_compliance answers with a
\* compliance_summary, or with an error dict
get_property_compliance ==
    /\ rpc = "idle"
    /\ \/ finder_result' = [error |-> "error"]
       \/ \E v \in 0..MaxOpenViolations, e \in 0..MaxEquipmentIssues, c \in 0..MaxOpenComplaints :
             LET compliance_score == calculate_compliance_score(v, e, c)
             IN  finder_result' =
                    [compliance_summary |->
                        [compliance_score |-> compliance_score,
                         risk_level |-> finder_risk_level(compliance_score)]]
    /\ rpc' = "sync_store"
    /\ UNCHANGED <<pipelineVars, summary, auxVars>>

\* _store_compliance_summary: select, then update or insert; an exception
\* of the database is swallowed and leaves the row as it was
store_compliance_summary ==
    /\ rpc = "sync_store"
    /\ \/ LET s == DictGet(finder_result, "compliance_summary", EmptyDict)
          IN  summary' = [present |-> TRUE,
                          compliance_score |-> Rat(DictGet(s, "compliance_score", 0), 1),
                          risk_level |-> DictGet(s, "risk_level", "UNKNOWN"),
                          written_by |-> "sync"]
       \/ UNCHANGED summary
    /\ finder_result' = EmptyDict
    /\ rpc' = "idle"
    /\ UNCHANGED <<pipelineVars, auxVars>>

NextRisk ==
    \/ api_generate_compliance_report
    \/ save_compliance_data_to_db
    \/ get_property_compliance
    \/ store_compliance_summary

SpecRisk == Init /\ [][NextRisk]_vars

\* ----------------------------------------------------------------- claims
\* C1: every score of the record process_property returns, the empty FAILED
\* record included, lies in [0, 100].
C1_ScoresInRange ==
    pc = "done" =>
        \A f \in {"hpd_compliance_score", "dob_compliance_score", "elevator_compliance_score",
                  "electrical_compliance_score", "overall_compliance_score"} :
            /\ record[f].den > 0
            /\ RatLeq(Rat(0, 1), record[f])
            /\ RatLeq(record[f], Rat(100, 1))

\* a returned record whose DOB score was clamped at 0
C1_Witness ==
    /\ pc = "done"
    /\ 100 - record.dob_violations_active * 15 < 0
    /\ record.dob_compliance_score = Rat(0, 1)

\* C2: in the returned record every active count is at most its total.
C2_ActiveAtMostTotal ==
    pc = "done" =>
        /\ record.hpd_violations_active <= record.hpd_violations_total
        /\ record.dob_violations_active <= record.dob_violations_total
        /\ record.elevator_devices_active <= record.elevator_devices_total
        /\ record.electrical_permits_active <= record.electrical_permits_total

\* a returned record with HPD rows of two buildings, an inactive elevator
\* and a permit that is not active
C2_Witness ==
    /\ pc = "done"
    /\ record.hpd_violations_total > 1
    /\ record.elevator_devices_active < record.elevator_devices_total
    /\ record.electrical_permits_active < record.electrical_permits_total

\* C3: the record's HPD score is the step function of the active HPD count
\* (0 -> 100, 1..5 -> 85, 6..15 -> 70, 16..30 -> 50, more -> 25).
C3_HpdScoreIsStep ==
    pc = "done" =>
        LET a == record.hpd_violations_active
        IN  record.hpd_compliance_score =
                Rat(IF a = 0 THEN 100 ELSE IF a <= 5 THEN 85 ELSE IF a <= 15 THEN 70
                    ELSE IF a <= 30 THEN 50 ELSE 25, 1)

\* C4: the record's DOB score is the step function of the active DOB count
\* (0 -> 100, 1..3 -> 85, 4..10 -> 70, 11..20 -> 50, more -> 25).
C4_DobScoreIsStep ==
    pc = "done" =>
        LET a == record.dob_violations_active
        IN  record.dob_compliance_score =
                Rat(IF a = 0 THEN 100 ELSE IF a <= 3 THEN 85 ELSE IF a <= 10 THEN 70
                    ELSE IF a <= 20 THEN 50 ELSE 25, 1)

\* C5: the record's elevator score is 100 without devices and otherwise
\* 100 * x / t rounded to an integer, x of the t devices being active.
C5_ElevatorScoreRounded ==
    pc = "done" =>
        LET t == record.elevator_devices_total
            x == record.elevator_devices_active
            q == (200 * x + t) \div (2 * t)
            rounded == IF (200 * x + t) % (2 * t) = 0 /\ q % 2 = 1 THEN q - 1 ELSE q
        IN  IF t = 0
            THEN RatEq(record.elevator_compliance_score, Rat(100, 1))
            ELSE RatEq(record.elevator_compliance_score, Rat(rounded, 1))

\* C6: the electrical score of a record the scorer built is 85 without
\* permits, 70 when none of the permits was filed in the last two calendar
\* years, 90 when one of them is active, and 100 otherwise.
C6_ElectricalScoreRules ==
    (pc = "done" /\ record.data_sources # "FAILED") =>
        LET n == record.electrical_permits_total
            r == Len(SelectSeq(record.electrical_data,
                               LAMBDA e : e.latest_inspection_date \div 10000 >= CurrentYear - 2))
            a == record.electrical_permits_active
        IN  record.electrical_compliance_score =
                Rat(IF n = 0 THEN 85 ELSE IF r = 0 THEN 70 ELSE IF a > 0 THEN 90 ELSE 100, 1)

\* C7: the record's overall score is 0.3 HPD + 0.3 DOB + 0.2 elevator +
\* 0.2 electrical of its own domain scores rounded to one decimal, so it
\* has at most one decimal digit.
C7_OverallOneDecimal ==
    pc = "done" =>
        LET o == record.overall_compliance_score
            h == record.hpd_compliance_score
            d == record.dob_compliance_score
            e == record.elevator_compliance_score
            x == record.electrical_compliance_score
            \* ten times the weighted sum, as a fraction wn / wd
            wn == (3 * h.num * d.den * x.den + 3 * d.num * h.den * x.den
                     + 2 * x.num * h.den * d.den) * e.den
                  + 2 * e.num * h.den * d.den * x.den
            wd == h.den * d.den * x.den * e.den
            tenths == (10 * o.num) \div o.den
            diff == wn - tenths * wd
        IN  /\ (10 * o.num) % o.den = 0
            /\ 2 * diff <= wd
            /\ -2 * diff <= wd

\* C8: every risk level derived from a score and persisted follows the
\* thresholds 90 / 75 / 50 of the persisted score, whichever path wrote the
\* summary row.
C8_RiskThresholds ==
    (summary.present /\ summary.risk_level \in {"LOW", "MEDIUM", "HIGH", "CRITICAL"}) =>
        summary.risk_level =
            (IF RatLeq(Rat(90, 1), summary.compliance_score) THEN "LOW"
             ELSE IF RatLeq(Rat(75, 1), summary.compliance_score) THEN "MEDIUM"
             ELSE IF RatLeq(Rat(50, 1), summary.compliance_score) THEN "HIGH"
             ELSE "CRITICAL")

C10_CoarseRowsMatchBin ==
    (/\ TruthyStr(identifiers.bin)
     /\ found_rows # <<>>
     /\ attempts # <<>>
     /\ attempts[Len(attempts)] # "BIN")
    => \A i \in DOMAIN found_rows : found_rows[i].bin = identifiers.bin

\* C12: the FAILED record is returned exactly when neither the geosearch
\* nor the HPD fallback resolved the address; the fallback is asked only
\* after the geosearch has failed, and a FAILED run has queried no
\* compliance dataset and gathered nothing.
C12_FailedIffUnresolved ==
    /\ pc = "fallback" => identifiers = NoIdentifiers
    /\ pc = "done" => ((record.data_sources = "FAILED") <=> (identifiers = NoIdentifiers))
    /\ (pc = "done" /\ record.data_sources = "FAILED") =>
          /\ record = create_empty_record("FAILED")
          /\ attempts = <<>>
          /\ responses = 0
          /\ compliance_data = EmptyComplianceData

\* a run that ended with the FAILED record
C12_Witness ==
    /\ pc = "done"
    /\ record.data_sources = "FAILED"
    /\ identifiers = NoIdentifiers

\* C13: resolved identifiers that carry a bbl carry one of 10 digits, made
\* of the borough code, the block padded to 5 and the lot padded to 4, and
\* block and lot have no leading zeros.
C13_BblPadded ==
    (pc \notin {"start", "fallback"} /\ TruthySeq(identifiers.bbl)) =>
        LET pad(d, n) == [i \in 1..n |-> IF i <= n - Len(d) THEN 0 ELSE d[i - (n - Len(d))]]
            bbl == identifiers.bbl
            block == identifiers.block
            lot == identifiers.lot
        IN  /\ Len(bbl) = 10
            /\ bbl[1] \in 1..5
            /\ Len(block) <= 5 /\ Len(lot) <= 4
            /\ SubSeq(bbl, 2, 6) = pad(block, 5)
            /\ SubSeq(bbl, 7, 10) = pad(lot, 4)
            /\ block = lstrip0(block) /\ lot = lstrip0(lot)

\* ------------------------------------------- group_devices_by_id on its own
\* The function applied to row lists as a dataset can send them: rows of two
\* devices and rows without a device id, dated in either of the formats the
\* datasets use, undated, or dated with something that is no date.
MaxRows == 3
DateSlashNew == <<0, 1, Slash, 1, 5, Slash, 2, 0, 2, 6>>     \* "01/15/2026"
DateSlashOld == <<1, 2, Slash, 0, 1, Slash, 2, 0, 1, 9>>     \* "12/01/2019"
DateGarbage == <<Dash>>                                      \* "-"
GroupRowIds == {"E1", "E2", ""}
GroupRowDates == {DateNew, DateSlashNew, DateSlashOld, DateGarbage, <<>>}
GroupRows == {EquipRow(id, "Active", Absent, date, TargetBin) : id \in GroupRowIds, date \in GroupRowDates}

InitGroup ==
    /\ InitPipeline /\ InitRisk /\ InitFetch /\ InitSyncIdle /\ InitHttp /\ InitLimiterIdle
    /\ fn_arg \in SeqsUpTo(GroupRows, MaxRows)
    /\ fn_result = <<>>
    /\ fn_state = "called"

\* the call returns the device list, or raises
call_group_devices_by_id ==
    /\ fn_state = "called"
    /\ fn_result' = group_devices_by_id(fn_arg)
    /\ fn_state' = "returned"
    /\ UNCHANGED <<pipelineVars, riskVars, fn_arg, fetch_log, syncVars, http, limiter>>

NextGroup == call_group_devices_by_id
SpecGroup == InitGroup /\ [][NextGroup]_vars

\* the parsed date of a row as one number, 0 when the row has none
ParsedDateOf(r) ==
    IF TruthySeq(r.date) /\ ParseInspectionDate(r.date).ok
    THEN Ord(ParseInspectionDate(r.date)) ELSE 0

\* C14: every device record has at least one inspection, all of them of its
\* device, ordered from the latest parsed date to the earliest with the
\* undated and unparseable ones last, and its latest_inspection_date is the
\* parsed date of inspections[0].
C14_InspectionsNewestFirst ==
    (fn_state = "returned" /\ ~fn_result.raised) =>
        \A k \in DOMAIN fn_result.devices :
            LET dev == fn_result.devices[k]
                ins == dev.inspections
            IN  /\ Len(ins) >= 1
                /\ \A i \in DOMAIN ins : ins[i].id = dev.device_id
                /\ \A i, j \in DOMAIN ins : i < j => ParsedDateOf(ins[i]) >= ParsedDateOf(ins[j])
                /\ dev.latest_inspection_date = ParsedDateOf(ins[1])

\* how many rows of a list carry the device id
RowsOf(data, id) == Len(SelectSeq(data, LAMBDA r : r.id = id))

\* C15: a returned device list partitions the input: each non-empty device
\* id of the input appears on exactly one record, no record has an id the
\* input lacks, and the total_inspections add up to the number of rows that
\* carry a device id; the call always returns such a list.
C15_Partition ==
    fn_state = "returned" =>
        /\ ~fn_result.raised
        /\ LET devs == fn_result.devices
               ids == {fn_arg[i].id : i \in DOMAIN fn_arg} \ {""}
           IN  /\ \A id \in ids : Cardinality({k \in DOMAIN devs : devs[k].device_id = id}) = 1
               /\ \A k \in DOMAIN devs : devs[k].device_id \in ids
               /\ \A k \in DOMAIN devs :
                     devs[k].total_inspections = RowsOf(fn_arg, devs[k].device_id)
               /\ \A k \in DOMAIN devs : devs[k].total_inspections = Len(devs[k].inspections)
               /\ \A i \in DOMAIN fn_arg :
                     fn_arg[i].id # "" =>
                        Cardinality({k \in DOMAIN devs :
                                        \E j \in DOMAIN devs[k].inspections :
                                            devs[k].inspections[j] = fn_arg[i]}) = 1

\* --------------------------------------------------------- date cleaning
Positions(s, c) == {i \in DOMAIN s : s[i] = c}
AllDigits(s) == \A i \in DOMAIN s : IsDigit(s[i])
DigitField(s, lo, hi) == Len(s) >= lo /\ Len(s) <= hi /\ AllDigits(s)

RECURSIVE NumOf(_)
NumOf(s) == IF Len(s) = 0 THEN 0 ELSE 10 * NumOf(SubSeq(s, 1, Len(s) - 1)) + s[Len(s)]

\* the three fields of a string with exactly two separators, <<>> otherwise
Split3(s, sep) ==
    LET P == Positions(s, sep)
    IN  IF Cardinality(P) # 2 THEN <<>>
        ELSE LET i == CHOOSE x \in P : \A y \in P : x <= y
                 j == CHOOSE x \in P : \A y \in P : x >= y
             IN  <<SubSeq(s, 1, i - 1), SubSeq(s, i + 1, j - 1), SubSeq(s, j + 1, Len(s))>>

\* datetime.strptime with '%Y-%m-%d' (yearFirst) or '%m/%d/%Y': %Y takes
\* four digits, %m and %d one or two, and the whole string must match
strptime_fields(s, sep, yearFirst) ==
    LET p == Split3(s, sep)
    IN  IF p = <<>> THEN NoParse
        ELSE LET y == IF yearFirst THEN p[1] ELSE p[3]
                 m == IF yearFirst THEN p[2] ELSE p[1]
                 d == IF yearFirst THEN p[3] ELSE p[2]
             IN  IF DigitField(y, 4, 4) /\ DigitField(m, 1, 2) /\ DigitField(d, 1, 2)
                 THEN Parsed(NumOf(y), NumOf(m), NumOf(d))
                 ELSE NoParse

\* the %H:%M:%S part, with .%f when frac
strptime_time(t, frac) ==
    LET p == Split3(t, Colon)
    IN  /\ p # <<>>
        /\ DigitField(p[1], 1, 2) /\ NumOf(p[1]) <= 23
        /\ DigitField(p[2], 1, 2) /\ NumOf(p[2]) <= 59
        /\ IF frac
           THEN /\ Cardinality(Positions(p[3], Dot)) = 1
                /\ LET k == CHOOSE x \in Positions(p[3], Dot) : TRUE
                   IN  /\ DigitField(SubSeq(p[3], 1, k - 1), 1, 2)
                       /\ NumOf(SubSeq(p[3], 1, k - 1)) <= 61
                       /\ DigitField(SubSeq(p[3], k + 1, Len(p[3])), 1, 6)
           ELSE DigitField(p[3], 1, 2) /\ NumOf(p[3]) <= 61

\* datetime.strptime with '%Y-%m-%dT%H:%M:%S' or '%Y-%m-%dT%H:%M:%S.%f'
strptime_T(s, frac) ==
    IF Cardinality(Positions(s, LetterT)) # 1 THEN NoParse
    ELSE LET k == CHOOSE x \in Positions(s, LetterT) : TRUE
             date == strptime_fields(SubSeq(s, 1, k - 1), Dash, TRUE)
         IN  IF date.ok /\ strptime_time(SubSeq(s, k + 1, Len(s)), frac) THEN date ELSE NoParse

\* datetime.fromisoformat on the forms every Python 3 release reads alike:
\* YYYY-MM-DD, then optionally one separator and HH[:MM[:SS[.fff[fff]]]]
fromisoformat(s) ==
    LET date == strptime_Ymd(SubSeq(s, 1, Min2(10, Len(s))), Dash)
        t == SubSeq(s, 12, Len(s))
        two(i) == IsDigit(t[i]) /\ IsDigit(t[i + 1])
        timeOk ==
            /\ Len(t) \in {2, 5, 8, 12, 15}
            /\ two(1) /\ Num2(t, 1) <= 23
            /\ Len(t) >= 5 => (t[3] = Colon /\ two(4) /\ Num2(t, 4) <= 59)
            /\ Len(t) >= 8 => (t[6] = Colon /\ two(7) /\ Num2(t, 7) <= 59)
            /\ Len(t) >= 12 => (t[9] = Dot /\ \A i \in 10..Len(t) : IsDigit(t[i]))
    IN  IF date.ok /\ (Len(s) = 10 \/ (Len(s) >= 13 /\ timeOk)) THEN date ELSE NoParse

\* date_str[:len(fmt.replace('%f', '000'))]: the slice is as long as the
\* format string, not as long as a date written in that format
FormatLen_Ymd == 8
FormatLen_mdY == 8
FormatLen_T == 17
FormatLen_Tf == 21
Slice(s, n) == SubSeq(s, 1, Min2(n, Len(s)))

\* clean_date_value: the empty sequence stands for None; a string that
\* parses with a year from 1900 on is returned as it came
clean_date_value(date_str) ==
    IF ~TruthySeq(date_str) THEN <<>>
    ELSE LET a == strptime_fields(Slice(date_str, FormatLen_Ymd), Dash, TRUE)
             b == strptime_fields(Slice(date_str, FormatLen_mdY), Slash, FALSE)
             c == strptime_T(Slice(date_str, FormatLen_T), FALSE)
             d == strptime_T(Slice(date_str, FormatLen_Tf), TRUE)
             e == fromisoformat(date_str)
             p == IF a.ok THEN a ELSE IF b.ok THEN b ELSE IF c.ok THEN c
                  ELSE IF d.ok THEN d ELSE e
         IN  IF p.ok /\ p.y >= 1900 THEN date_str ELSE <<>>

\* clean_data_for_json on rows [id, date, ...]: date is the value under a
\* key that names a date, the other values pass through
clean_data_for_json(data) ==
    [i \in DOMAIN data |-> [data[i] EXCEPT !.date = clean_date_value(@)]]

\* date strings as the datasets and callers write them
DateYears == {1850, 1899, 1900, 2025}
DateMonths == {1, 5, 12, 13}
DateDays == {1, 31}
DateForms == {"Y-m-d", "m/d/Y", "T", "T.f", "Y-m-d unpadded", "m/d/Y unpadded"}
Digits2(n) == <<n \div 10, n % 10>>
Digits4(n) == <<n \div 1000, (n \div 100) % 10, (n \div 10) % 10, n % 10>>
Unpadded(n) == IF n < 10 THEN <<n>> ELSE Digits2(n)
Midnight == <<LetterT, 0, 0, Colon, 0, 0, Colon, 0, 0>>
FormatDate(y, m, d, form) ==
    LET iso == Digits4(y) \o <<Dash>> \o Digits2(m) \o <<Dash>> \o Digits2(d)
    IN  CASE form = "Y-m-d" -> iso
          [] form = "m/d/Y" -> Digits2(m) \o <<Slash>> \o Digits2(d) \o <<Slash>> \o Digits4(y)
          [] form = "T" -> iso \o Midnight
          [] form = "T.f" -> iso \o Midnight \o <<Dot, 0, 0, 0>>
          [] form = "Y-m-d unpadded" -> Digits4(y) \o <<Dash>> \o Unpadded(m) \o <<Dash>> \o Unpadded(d)
          [] form = "m/d/Y unpadded" -> Unpadded(m) \o <<Slash>> \o Unpadded(d) \o <<Slash>> \o Digits4(y)
DateStrings ==
    {FormatDate(y, m, d, f) : y \in DateYears, m \in DateMonths, d \in DateDays, f \in DateForms}
        \cup {<<>>, DateGarbage}

InitDates ==
    /\ InitPipeline /\ InitRisk /\ InitFetch /\ InitSyncIdle /\ InitHttp /\ InitLimiterIdle
    /\ \E s \in DateStrings : fn_arg = <<EquipRow("E1", "Active", Absent, s, TargetBin)>>
    /\ fn_result = <<>>
    /\ fn_state = "called"

call_clean_data_for_json ==
    /\ fn_state = "called"
    /\ fn_result' = clean_data_for_json(fn_arg)
    /\ fn_state' = "returned"
    /\ UNCHANGED <<pipelineVars, riskVars, fn_arg, fetch_log, syncVars, http, limiter>>

NextDates == call_clean_data_for_json
SpecDates == InitDates /\ [][NextDates]_vars

\* C18: every date value emitted by clean_data_for_json is null or has the
\* exact form YYYY-MM-DD with a year from 1900 on; a date given as
\* MM/DD/YYYY or as an ISO-8601 timestamp is emitted as YYYY-MM-DD.
C18_DatesNormalised ==
    fn_state = "returned" =>
        \A i \in DOMAIN fn_result :
            LET out == fn_result[i].date
                in == fn_arg[i].date
                asTimestamp == strptime_T(in, FALSE).ok \/ strptime_T(in, TRUE).ok
                asSlash == strptime_mdY(in, Slash)
            IN  /\ out = <<>> \/ (strptime_Ymd(out, Dash).ok /\ Num4(out, 1) >= 1900)
                /\ (asSlash.ok /\ asSlash.y >= 1900) =>
                      out = Digits4(asSlash.y) \o <<Dash>> \o Digits2(asSlash.m) \o <<Dash>> \o Digits2(asSlash.d)
                /\ (asTimestamp /\ Num4(in, 1) >= 1900) => out = SubSeq(in, 1, 10)

\* ------------------------------------------------- get_data, request by request
\* How one HTTP request of get_data ends: with a JSON body, or with one of
\* the exceptions get_data catches.
FetchErrorKinds == {"timeout", "http_400", "http_error", "request_exception"}
RetriedDatasets == {"electrical_permits", "fdny_violations", "fdny_violations_simple"}
max_retries(dataset_key) == IF dataset_key \in RetriedDatasets THEN 3 ELSE 1

\* the retry loop from its attempt-th pass on (0-based); outcomes[i] is how
\* the i-th request ends.  Returns the rows get_data returns, with the number
\* of requests made and the kind of the last one.
RECURSIVE get_data_attempt(_, _, _)
get_data_attempt(dataset_key, outcomes, attempt) ==
    LET o == outcomes[attempt + 1]
        retry == attempt < max_retries(dataset_key) - 1
        gaveUp == [rows |-> <<>>, requests |-> attempt + 1, last |-> o.kind]
    IN  IF o.kind = "ok" THEN [rows |-> o.rows, requests |-> attempt + 1, last |-> "ok"]
        ELSE IF o.kind = "timeout"
             THEN IF retry THEN get_data_attempt(dataset_key, outcomes, attempt + 1) ELSE gaveUp
        ELSE IF o.kind = "http_400" /\ dataset_key = "electrical_permits"
             THEN IF retry THEN get_data_attempt(dataset_key, outcomes, attempt + 1) ELSE gaveUp
        ELSE gaveUp

get_data(dataset_key, outcomes) == get_data_attempt(dataset_key, outcomes, 0)

\* what a request for the violations of one strategy can end with
RequestOutcomes(strategy, counts, m) ==
    {[kind |-> "ok", rows |-> rows] : rows \in ViolationResponses(strategy, counts, m)} \cup
    {[kind |-> k, rows |-> <<>>] : k \in FetchErrorKinds}

\* one pass of the loop of gather_hpd_violations with the request spelled
\* out: get_data makes max_retries('hpd_violations') = 1 request
hpd_fetch ==
    /\ pc = "hpd_wait"
    /\ \E o \in RequestOutcomes(search_strategies[attempt_idx], HpdCounts, neighbour) :
          LET got == get_data("hpd_violations", <<o>>)
              acc == AcceptViolations(search_strategies[attempt_idx], got.rows, identifiers)
          IN  /\ responses' = responses + 1
              /\ fetch_log' = Append(fetch_log, got.last)
              /\ IF Len(acc) > 0
                 THEN /\ found_rows' = acc
                      /\ compliance_data' = store_hpd(acc)
                      /\ pc' = "gather_dob"
                      /\ UNCHANGED attempt_idx
                 ELSE /\ attempt_idx' = attempt_idx + 1
                      /\ pc' = "hpd_loop"
                      /\ UNCHANGED <<found_rows, compliance_data>>
    /\ UNCHANGED <<identifiers, neighbour, search_strategies, attempts, record, riskVars, fnVars,
                   syncVars, http, limiter>>

NextFetch ==
    \/ get_property_identifiers
    \/ fallback_property_search
    \/ gather_hpd_violations
    \/ hpd_get_data
    \/ hpd_fetch
    \/ hpd_none

SpecFetch == Init /\ [][NextFetch]_vars

\* the hpd_* entries of compliance_data, which is all the caller of
\* gather_hpd_violations gets to see of the search
HpdOutcome(cd) ==
    <<cd.hpd_violations_total, cd.hpd_violations_active, cd.hpd_violations_data,
      cd.hpd_compliance_score>>

\* C11: when the HPD search is over, an attempt that ended in a fetch error
\* was followed by the next attempt of the plan, and a search whose attempts
\* all ended in a fetch error left its caller something other than what a
\* search without rows leaves.
C11_AllFailedSurfaced ==
    pc = "gather_dob" =>
        /\ \A i \in DOMAIN fetch_log :
              (fetch_log[i] # "ok" /\ i < Len(search_strategies)) => Len(attempts) > i
        /\ (fetch_log # <<>> /\ \A i \in DOMAIN fetch_log : fetch_log[i] # "ok") =>
              HpdOutcome(compliance_data) # HpdOutcome(store_hpd(<<>>))

\* ------------------------------------------------- sync_property_data runs
\* The tables are append-only lists, a row's id being its position.  Every
\* call on the store (select, insert, update) is one step, so that the
\* steps of two runs interleave as the requests of two workers do.  The
\* inserts are plain inserts, as the source writes them: no conflict target.
\* Of the timestamps only last_synced_at and last_calculated are kept; they
\* hold the number of the run that wrote them.
MaxRuns == 2
MaxSyncItems == 2
MaxDobRows == 2
MaxAttempts == 3
Runs == 1..MaxRuns
ThisProperty == "P1"

ViolationTables == {"nyc_hpd_violations", "nyc_dob_violations"}
EquipmentTables == {"nyc_elevator_inspections", "nyc_boiler_inspections"}
SkipTables == ViolationTables \cup {"nyc_311_complaints"}
\* the order in which sync_property_data goes through the child tables
TableOrder ==
    <<"nyc_hpd_violations", "nyc_dob_violations", "nyc_elevator_inspections",
      "nyc_boiler_inspections", "nyc_311_complaints">>
TableRank(t) == CHOOSE i \in DOMAIN TableOrder : TableOrder[i] = t

\* a fetched row to persist: its table and its key there (violationid,
\* isndobbisviol, device_number, unique_key), empty when the row has none
SyncItems ==
    {[table |-> "nyc_hpd_violations", key |-> "V1"],
     [table |-> "nyc_hpd_violations", key |-> ""],
     [table |-> "nyc_dob_violations", key |-> "D1"],
     [table |-> "nyc_elevator_inspections", key |-> "E1"],
     [table |-> "nyc_boiler_inspections", key |-> "B1"],
     [table |-> "nyc_311_complaints", key |-> "K1"]}

\* the lists of rows a run can be given, table after table
Worklists ==
    {w \in SeqsUpTo(SyncItems, MaxSyncItems) :
        \A i, j \in DOMAIN w :
            i < j => /\ TableRank(w[i].table) <= TableRank(w[j].table)
                     /\ w[i] # w[j]}

\* identified: whether get_property_identifiers_enhanced finds the address;
\* bin: the BIN it carries; search_bin: the BIN search_property finds
Upstreams ==
    {[identified |-> i, bin |-> b, search_bin |-> sb, items |-> w] :
        i \in BOOLEAN, b \in {TargetBin, NoneVal}, sb \in {TargetBin, NoneVal}, w \in Worklists}

IdleRun ==
    [pc |-> "idle", bin |-> NoneVal, nyc_property_id |-> 0, idx |-> 1, existing |-> 0,
     writes |-> <<>>, started_after |-> {}, db_at_end |-> EmptyDb]

InitSync ==
    /\ InitPipeline /\ InitRisk /\ InitFn /\ InitFetch /\ InitHttp /\ InitLimiterIdle
    /\ db = EmptyDb
    /\ runs = [r \in Runs |-> IdleRun]
    /\ upstream \in {u \in Upstreams :
                        /\ ~u.identified => (u.bin = NoneVal /\ u.items = <<>>)
                        /\ (u.bin # NoneVal \/ ~u.identified) => u.search_bin = NoneVal}

\* ids of the rows of a table that satisfy a filter
Select(rows, Match(_)) == {i \in DOMAIN rows : Match(rows[i])}

\* the return of a run, with the tables as it leaves them
RunDone(run, d) == [run EXCEPT !.pc = "done", !.db_at_end = d]

\* the bin_number a caller passes: none, or a BIN of its own
CallerBins == {NoneVal, OtherBin}

\* sync_property_data up to step 1: without identifiers it returns an error;
\* the caller's bin_number, when given, replaces the geocoded one
sync_property_data(r) ==
    /\ runs[r].pc = "idle"
    /\ \E bin_number \in CallerBins :
          LET started == [runs[r] EXCEPT
                             !.started_after = {q \in Runs : runs[q].pc = "done"},
                             !.bin = IF TruthyStr(bin_number) THEN bin_number ELSE upstream.bin]
          IN  runs' = [runs EXCEPT ![r] =
                          IF upstream.identified
                          THEN [started EXCEPT !.pc = "prop_select"]
                          ELSE RunDone(started, db)]
    /\ UNCHANGED <<db, upstream, pipelineVars, riskVars, fnVars, fetch_log, http, limiter>>

\* _get_or_create_nyc_property: the lookup, made only with a BIN; without
\* one, search_property is asked for it and the insert follows at once
get_or_create_nyc_property_select(r) ==
    /\ runs[r].pc = "prop_select"
    /\ LET found == Select(db.nyc_properties,
                           LAMBDA row : row.property_id = ThisProperty /\ row.bin = runs[r].bin)
       IN  IF TruthyStr(runs[r].bin) /\ found # {}
           THEN \E id \in found :
                   runs' = [runs EXCEPT ![r].nyc_property_id = id, ![r].pc = "children"]
           ELSE runs' = [runs EXCEPT
                            ![r].bin = IF TruthyStr(@) THEN @ ELSE upstream.search_bin,
                            ![r].pc = "prop_insert"]
    /\ UNCHANGED <<db, upstream, pipelineVars, riskVars, fnVars, fetch_log, http, limiter>>

get_or_create_nyc_property_insert(r) ==
    /\ runs[r].pc = "prop_insert"
    /\ db' = [db EXCEPT !.nyc_properties =
                 Append(@, [property_id |-> ThisProperty, bin |-> runs[r].bin,
                            last_synced_at |-> 0])]
    /\ runs' = [runs EXCEPT ![r].nyc_property_id = Len(db.nyc_properties) + 1,
                            ![r].writes = Append(@, "nyc_properties"),
                            ![r].pc = "children"]
    /\ UNCHANGED <<upstream, pipelineVars, riskVars, fnVars, fetch_log, http, limiter>>

\* the "check if exists" of the current row: by violation_id / unique_key
\* alone in the violation and complaint tables, by device_number and
\* nyc_property_id in the equipment tables
child_select(r) ==
    /\ runs[r].pc = "children"
    /\ runs[r].idx <= Len(upstream.items)
    /\ LET item == upstream.items[runs[r].idx]
           found == Select(db.children,
                           LAMBDA row : /\ row.table = item.table
                                        /\ row.key = item.key
                                        /\ item.table \in EquipmentTables =>
                                              row.nyc_property_id = runs[r].nyc_property_id)
       IN  IF item.key = "" \/ (item.table \in SkipTables /\ found # {})
           THEN runs' = [runs EXCEPT ![r].idx = @ + 1]
           ELSE \E id \in found \cup (IF found = {} THEN {0} ELSE {}) :
                   runs' = [runs EXCEPT ![r].existing = id, ![r].pc = "child_write"]
    /\ UNCHANGED <<db, upstream, pipelineVars, riskVars, fnVars, fetch_log, http, limiter>>

\* the insert of the row, or the update of the equipment row found
child_write(r) ==
    /\ runs[r].pc = "child_write"
    /\ LET item == upstream.items[runs[r].idx]
           row == [table |-> item.table, key |-> item.key,
                   nyc_property_id |-> runs[r].nyc_property_id]
       IN  db' = [db EXCEPT !.children =
                     IF runs[r].existing = 0 THEN Append(@, row)
                     ELSE [@ EXCEPT ![runs[r].existing] = row]]
    /\ runs' = [runs EXCEPT ![r].writes = Append(@, upstream.items[runs[r].idx].table),
                            ![r].idx = @ + 1,
                            ![r].existing = 0,
                            ![r].pc = "children"]
    /\ UNCHANGED <<upstream, pipelineVars, riskVars, fnVars, fetch_log, http, limiter>>

\* step 6, _store_compliance_summary: the lookup by nyc_property_id
sync_summary_select(r) ==
    /\ runs[r].pc = "children"
    /\ runs[r].idx > Len(upstream.items)
    /\ LET found == Select(db.nyc_compliance_summary,
                           LAMBDA row : row.nyc_property_id = runs[r].nyc_property_id)
       IN  \E id \in found \cup (IF found = {} THEN {0} ELSE {}) :
              runs' = [runs EXCEPT ![r].existing = id, ![r].pc = "summary_write"]
    /\ UNCHANGED <<db, upstream, pipelineVars, riskVars, fnVars, fetch_log, http, limiter>>

\* ... and the update or insert of the summary row
sync_summary_write(r) ==
    /\ runs[r].pc = "summary_write"
    /\ LET row == [nyc_property_id |-> runs[r].nyc_property_id,
                   property_id |-> ThisProperty,
                   last_calculated |-> r]
       IN  db' = [db EXCEPT !.nyc_compliance_summary =
                     IF runs[r].existing = 0 THEN Append(@, row)
                     ELSE [@ EXCEPT ![runs[r].existing] = row]]
    /\ runs' = [runs EXCEPT ![r].writes = Append(@, "nyc_compliance_summary"),
                            ![r].existing = 0,
                            ![r].pc = "stamp"]
    /\ UNCHANGED <<upstream, pipelineVars, riskVars, fnVars, fetch_log, http, limiter>>

\* step 7: last_synced_at of the property row, then the return
update_last_synced_at(r) ==
    /\ runs[r].pc = "stamp"
    /\ db' = [db EXCEPT !.nyc_properties[runs[r].nyc_property_id].last_synced_at = r]
    /\ runs' = [runs EXCEPT ![r] =
                   RunDone([@ EXCEPT !.writes = Append(@, "nyc_properties")], db')]
    /\ UNCHANGED <<upstream, pipelineVars, riskVars, fnVars, fetch_log, http, limiter>>

NextSync ==
    \E r \in Runs :
        \/ sync_property_data(r)
        \/ get_or_create_nyc_property_select(r)
        \/ get_or_create_nyc_property_insert(r)
        \/ child_select(r)
        \/ child_write(r)
        \/ sync_summary_select(r)
        \/ sync_summary_write(r)
        \/ update_last_synced_at(r)

SpecSync == InitSync /\ [][NextSync]_vars

\* the tables without last_synced_at and last_calculated
StripTimestamps(d) ==
    [nyc_properties |->
        [i \in DOMAIN d.nyc_properties |->
            [property_id |-> d.nyc_properties[i].property_id, bin |-> d.nyc_properties[i].bin]],
     children |-> d.children,
     nyc_compliance_summary |->
        [i \in DOMAIN d.nyc_compliance_summary |->
            [nyc_property_id |-> d.nyc_compliance_summary[i].nyc_property_id,
             property_id |-> d.nyc_compliance_summary[i].property_id]]]

C19_SummaryWrittenLast ==
    \A r \in Runs :
        LET w == runs[r].writes
        IN  /\ \A i \in DOMAIN w : w[i] = "nyc_properties" => i = 1
            /\ \A i \in DOMAIN w : w[i] = "nyc_compliance_summary" => i = Len(w)

\* ---------------------------------------------------------- web endpoints
\* What goes wrong in a run behind an endpoint, by kind; "none" when
\* nothing does.
FetchErrors == {"BadQuery", "Rate", "Network", "Remote", "Decode"}
RunErrors == {"none", "NotFound", "Other"} \cup FetchErrors

\* identifiers of an address the geosearch resolves
ResolvedIdentifiers ==
    geoclient_get_property_identifiers([features |-> TRUE, bin |-> TargetBin, bbl |-> TargetBBL])

\* process_property as its caller sees it.  An address that resolves nowhere
\* gives the FAILED record; a failed fetch is an empty answer of get_data,
\* so the record is built from what was gathered; anything else raises.
process_property_outcome(err, cd) ==
    IF err = "NotFound" THEN [raised |-> FALSE, record |-> create_empty_record("FAILED")]
    ELSE IF err = "Other" THEN [raised |-> TRUE, record |-> create_empty_record("")]
    ELSE [raised |-> FALSE, record |-> create_compliance_record(ResolvedIdentifiers, cd)]

\* what a run can have gathered: anything when nothing failed; a search
\* whose fetch failed stores the same as one without rows
GatheredBy(err) ==
    IF err \in FetchErrors
    THEN {GatheredData(0, d, <<>>) : d \in 0..MaxDob}
    ELSE {GatheredData(h, d, st) : h \in 0..MaxHpd, d \in 0..MaxDob, st \in StatusLists}

\* sync_property_data as its caller sees it: 'success' is set only at the
\* end of a run, and an exception sets it to False
sync_property_data_success(err) == err \notin {"NotFound", "Other"}

Respond(endpoint, ran, err, status, success, data) ==
    http' = [stage |-> "responded", endpoint |-> endpoint, ran |-> ran, run_error |-> err,
             status |-> status, success |-> success, data |-> data]

api_nyc_comprehensive_data ==
    /\ http.stage = "idle"
    /\ \E address \in BOOLEAN, err \in RunErrors :
          \E cd \in GatheredBy(err) :
             LET out == process_property_outcome(err, cd)
             IN  IF ~address THEN Respond("nyc-comprehensive-data", FALSE, "none", 400, FALSE, <<>>)
                 ELSE IF out.raised
                      THEN Respond("nyc-comprehensive-data", TRUE, err, 500, FALSE, <<>>)
                      ELSE Respond("nyc-comprehensive-data", TRUE, err, 200, TRUE, out.record)
    /\ UNCHANGED <<pipelineVars, riskVars, fnVars, fetch_log, syncVars, limiter>>

\* the response of /api/generate-compliance-report; a failure of
\* save_compliance_data_to_db is logged and does not change it
api_generate_compliance_report_response ==
    /\ http.stage = "idle"
    /\ \E required \in BOOLEAN, nyc \in BOOLEAN, err \in RunErrors :
          \E cd \in GatheredBy(err) :
             LET out == process_property_outcome(err, cd)
             IN  IF ~required
                 THEN Respond("generate-compliance-report", FALSE, "none", 400, FALSE, <<>>)
                 ELSE IF ~nyc
                      THEN Respond("generate-compliance-report", FALSE, "none", 200, TRUE, <<>>)
                 ELSE IF out.raised
                      THEN Respond("generate-compliance-report", TRUE, err, 500, FALSE, <<>>)
                      ELSE Respond("generate-compliance-report", TRUE, err, 200, TRUE, out.record)
    /\ UNCHANGED <<pipelineVars, riskVars, fnVars, fetch_log, syncVars, limiter>>

api_sync_nyc_property ==
    /\ http.stage = "idle"
    /\ \E service \in BOOLEAN, required \in BOOLEAN, err \in RunErrors :
          IF ~service THEN Respond("sync-nyc-property", FALSE, "none", 500, FALSE, <<>>)
          ELSE IF ~required THEN Respond("sync-nyc-property", FALSE, "none", 400, FALSE, <<>>)
          ELSE IF sync_property_data_success(err)
               THEN Respond("sync-nyc-property", TRUE, err, 200, TRUE, <<>>)
               ELSE Respond("sync-nyc-property", TRUE, err, 500, FALSE, <<>>)
    /\ UNCHANGED <<pipelineVars, riskVars, fnVars, fetch_log, syncVars, limiter>>

\* the next request
next_request ==
    /\ http.stage = "responded"
    /\ http' = NoRequest
    /\ UNCHANGED <<pipelineVars, riskVars, fnVars, fetch_log, syncVars, limiter>>

NextHttp ==
    \/ api_nyc_comprehensive_data
    \/ api_generate_compliance_report_response
    \/ api_sync_nyc_property
    \/ next_request

SpecHttp == Init /\ [][NextHttp]_vars

\* C20: the status of a response to a request that ran the orchestrator
\* follows the kind of error of the run: NotFound 404, BadQuery 400, Rate
\* and Network 503, Remote and Decode 502, any other error 500; a run whose
\* address was not resolved is never answered with 200.
C20_StatusByErrorKind ==
    (http.stage = "responded" /\ http.ran) =>
        /\ http.status =
              CASE http.run_error = "none" -> 200
                [] http.run_error = "NotFound" -> 404
                [] http.run_error = "BadQuery" -> 400
                [] http.run_error \in {"Rate", "Network"} -> 503
                [] http.run_error \in {"Remote", "Decode"} -> 502
                [] OTHER -> 500
        /\ http.run_error = "NotFound" => http.status # 200


\* ------------------------------------------- device fields of a group record
\* Rows of one device that differ in date, status and type, as the elevator
\* dataset returns them over the years of a device's life.
DeviceTypes == {"Passenger", "Freight"}
TypedRow(id, dstatus, dtype, date) ==
    [id |-> id, date |-> date, device_status |-> dstatus, filing_status |-> Absent,
     bin |-> TargetBin, device_type |-> dtype]
TypedRows ==
    {TypedRow("E1", st, ty, date) :
        st \in DeviceStatuses, ty \in DeviceTypes, date \in {DateNew, DateOld, <<>>}}

InitGroupFields ==
    /\ InitPipeline /\ InitRisk /\ InitFetch /\ InitSyncIdle /\ InitHttp /\ InitLimiterIdle
    /\ fn_arg \in SeqsUpTo(TypedRows, MaxRows)
    /\ fn_result = <<>>
    /\ fn_state = "called"

SpecGroupFields == InitGroupFields /\ [][NextGroup]_vars

\* the rows of a list whose parsed date is the greatest of the list
LatestRows(ins) ==
    {i \in DOMAIN ins : \A j \in DOMAIN ins : ParsedDateOf(ins[i]) >= ParsedDateOf(ins[j])}

\* C21: the device_type, device_status and filing_status of every returned
\* device record are those of a row of the device with the maximum parsed
\* date, whatever the order in which the rows arrived.
C21_FieldsOfLatestRow ==
    (fn_state = "returned" /\ ~fn_result.raised) =>
        \A k \in DOMAIN fn_result.devices :
            LET dev == fn_result.devices[k]
            IN  \E i \in LatestRows(dev.inspections) :
                    LET r == dev.inspections[i]
                    IN  /\ dev.device_status = Get(r.device_status, "Unknown")
                        /\ dev.filing_status = Get(r.filing_status, "Unknown")
                        /\ dev.device_type = DictGet(r, "device_type", "Unknown")

\* C22: group_devices_by_id completes on every list of rows, also when some
\* devices have a parseable latest date and others have none, and returns
\* a record for every device of the input.
C22_GrouperNeverRaises ==
    fn_state = "returned" =>
        /\ ~fn_result.raised
        /\ \A i \in DOMAIN fn_arg :
              TruthyStr(fn_arg[i].id) =>
                 \E k \in DOMAIN fn_result.devices :
                    fn_result.devices[k].device_id = fn_arg[i].id

\* ------------------------------------- DOB violation rows, normalisation
\* _to_iso_date: the first of four formats that parses the first ten
\* characters, then fromisoformat on the first nineteen; the result is
\* YYYY-MM-DD, the empty sequence stands for None
IsoPrefixLen == 19
FirstParsed(a, b, c, d, e) ==
    IF a.ok THEN a ELSE IF b.ok THEN b ELSE IF c.ok THEN c ELSE IF d.ok THEN d ELSE e
IsoOf(p) == IF p.ok THEN FormatDate(p.y, p.m, p.d, "Y-m-d") ELSE <<>>
ParseIsoCandidates(val, s10) ==
    FirstParsed(strptime_fields(s10, Dash, TRUE), strptime_fields(s10, Slash, FALSE),
                strptime_fields(s10, Dash, FALSE), strptime_fields(s10, Slash, TRUE),
                fromisoformat(Slice(val, IsoPrefixLen)))
to_iso_date(val) ==
    IF ~TruthySeq(val) THEN <<>> ELSE IsoOf(ParseIsoCandidates(val, Prefix10(val)))

\* str.upper() on the words the dataset writes in violation_category
UpperWord(w) ==
    CASE w = "Resolved" -> "RESOLVED"
      [] w = "active" -> "ACTIVE"
      [] OTHER -> w

\* 'WORD' in vc, on a category held as its sequence of words
CategoryHas(vc, word) == \E i \in DOMAIN vc : UpperWord(vc[i]) = word

\* v.get('issue_date') or v.get('issuedate')
raw_issue(v) == IF TruthySeq(v.issue_date) THEN v.issue_date ELSE v.issuedate

\* both date keys are written when the raw value gives an ISO date
with_issue_date(v, iso_issue) ==
    IF TruthySeq(iso_issue) THEN [v EXCEPT !.issuedate = iso_issue, !.issue_date = iso_issue]
    ELSE v

\* the status is derived from the category vc when the row has none
with_status(v, vc) ==
    IF v.status \notin {Absent, NoneVal, ""} THEN v
    ELSE IF CategoryHas(vc, "ACTIVE") THEN [v EXCEPT !.status = "ACTIVE"]
    ELSE IF CategoryHas(vc, "RESOLVED") \/ CategoryHas(vc, "CLOSED")
            \/ CategoryHas(vc, "DISMISSED")
         THEN [v EXCEPT !.status = "RESOLVED"]
    ELSE v

\* the loop body of gather_dob_violations over one cleaned row
normalise_dob_row(v) ==
    with_status(with_issue_date(v, to_iso_date(raw_issue(v))), v.violation_category)

\* the sort key of a row: issuedate or '1900-01-01'
IssueKey(v) == IF TruthySeq(v.issuedate) THEN v.issuedate ELSE FormatDate(1900, 1, 1, "Y-m-d")

\* list.sort(key=issuedate, reverse=True): stable, descending
RECURSIVE InsertByIssue(_, _)
InsertByIssue(s, x) ==
    IF Len(s) = 0 THEN <<x>>
    ELSE IF SeqLess(IssueKey(Head(s)), IssueKey(x)) THEN <<x>> \o s
    ELSE <<Head(s)>> \o InsertByIssue(Tail(s), x)

RECURSIVE SortByIssue(_)
SortByIssue(s) ==
    IF Len(s) = 0 THEN <<>>
    ELSE InsertByIssue(SortByIssue(SubSeq(s, 1, Len(s) - 1)), s[Len(s)])

\* clean_data_for_json on a DOB row: its two date keys are cleaned
clean_dob_row(v) ==
    [v EXCEPT !.issue_date = clean_date_value(@), !.issuedate = clean_date_value(@)]

\* the rows that end up in dob_violations_data: cleaned, normalised, sorted
dob_violations_data(rows) ==
    SortByIssue([i \in DOMAIN rows |-> normalise_dob_row(clean_dob_row(rows[i]))])

\* the DOB rows of the dataset: violation_category as the words of the
\* dataset's values (empty when the row has none), issue_date in the forms
\* the datasets use
DobCategories ==
    {<<>>, <<"V-DOB", "VIOLATION", "-", "ACTIVE">>, <<"V*-DOB", "VIOLATION", "-", "Resolved">>,
     <<"V*-DOB", "VIOLATION", "-", "DISMISSED">>, <<"V-DOB", "VIOLATION">>}
DateCompact == <<2, 0, 2, 5, 0, 5, 0, 1>>                  \* "20250501"
DobRow(status, category, issue_date, issuedate) ==
    [status |-> status, violation_category |-> category,
     issue_date |-> issue_date, issuedate |-> issuedate]
DobRows ==
    {DobRow(st, vc, d1, d2) :
        st \in {Absent, "", "OPEN"}, vc \in DobCategories,
        d1 \in {<<>>, DateNew, DateSlashOld, DateCompact}, d2 \in {<<>>, DateOld}}

InitDob ==
    /\ InitPipeline /\ InitRisk /\ InitFetch /\ InitSyncIdle /\ InitHttp /\ InitLimiterIdle
    /\ fn_arg \in UNION {[1..n -> DobRows] : n \in 1..MaxDobRows}
    /\ fn_result = <<>>
    /\ fn_state = "called"

call_dob_violations_data ==
    /\ fn_state = "called"
    /\ fn_result' = dob_violations_data(fn_arg)
    /\ fn_state' = "returned"
    /\ UNCHANGED <<pipelineVars, riskVars, fn_arg, fetch_log, syncVars, http, limiter>>

NextDob == call_dob_violations_data
SpecDob == InitDob /\ [][NextDob]_vars

\* C23: every emitted DOB violation has a status among OPEN, RESOLVED and
\* UNKNOWN, derived from violation_category when the row had none (ACTIVE
\* gives OPEN; RESOLVED, CLOSED or DISMISSED gives RESOLVED), and carries
\* issue_date and issuedate with the same value.
C23_DobStatusNormalised ==
    fn_state = "returned" =>
        /\ Len(fn_result) = Len(fn_arg)
        /\ \A i \in DOMAIN fn_result :
              /\ fn_result[i].status \in {"OPEN", "RESOLVED", "UNKNOWN"}
              /\ fn_result[i].issue_date = fn_result[i].issuedate
        /\ \A i \in DOMAIN fn_arg :
              fn_arg[i].status \in {Absent, ""} =>
                 \E j \in DOMAIN fn_result :
                    /\ fn_result[j].violation_category = fn_arg[i].violation_category
                    /\ CategoryHas(fn_arg[i].violation_category, "ACTIVE")
                          => fn_result[j].status = "OPEN"
                    /\ CategoryHas(fn_arg[i].violation_category, "DISMISSED")
                          => fn_result[j].status = "RESOLVED"

\* C24: whatever sync runs are made for a property, in sequence or
\* interleaved, with or without a BIN, nyc_properties never holds more than
\* one row for its property_id.
C24_OnePropertyRow ==
    Cardinality(Select(db.nyc_properties, LAMBDA row : row.property_id = ThisProperty)) <= 1

\* ------------------------------------------- equipment rows of a sync run
\* _sync_elevator_inspections / _sync_boiler_inspections over the fetched
\* rows in the order of the DataFrame: a row without device number is
\* skipped; the stored row of the device is looked up by device_number and
\* nyc_property_id and overwritten with this row's snapshot, or inserted
RECURSIVE sync_equipment_inspections(_, _, _)
sync_equipment_inspections(nyc_property_id, inspections, table) ==
    IF Len(inspections) = 0 THEN table
    ELSE LET inspection == Head(inspections)
             existing == Select(table, LAMBDA row : /\ row.device_number = inspection.id
                                                    /\ row.nyc_property_id = nyc_property_id)
             inspection_data == [nyc_property_id |-> nyc_property_id,
                                 device_number |-> inspection.id,
                                 last_inspection_date |-> Prefix10(inspection.date),
                                 device_status |-> inspection.device_status]
             written == IF existing # {}
                        THEN [table EXCEPT ![CHOOSE i \in existing : \A j \in existing : i <= j] =
                                               inspection_data]
                        ELSE Append(table, inspection_data)
         IN  IF ~TruthyStr(inspection.id)
             THEN sync_equipment_inspections(nyc_property_id, Tail(inspections), table)
             ELSE sync_equipment_inspections(nyc_property_id, Tail(inspections), written)

\* the rows search_by_bin returns for a building: several per device, one
\* for each inspection, in no stated order
InspectionRows ==
    {EquipRow(id, st, Absent, date, TargetBin) :
        id \in {"E1", "E2"}, st \in DeviceStatuses, date \in {DateNew, DateOld}}

InitEquip ==
    /\ InitPipeline /\ InitRisk /\ InitFetch /\ InitSyncIdle /\ InitHttp /\ InitLimiterIdle
    /\ fn_arg \in SeqsUpTo(InspectionRows, MaxRows)
    /\ fn_result = <<>>
    /\ fn_state = "called"

\* step 4 of a run on a property whose equipment table is still empty
call_sync_equipment_inspections ==
    /\ fn_state = "called"
    /\ fn_result' = sync_equipment_inspections(1, fn_arg, <<>>)
    /\ fn_state' = "returned"
    /\ UNCHANGED <<pipelineVars, riskVars, fn_arg, fetch_log, syncVars, http, limiter>>

NextEquip == call_sync_equipment_inspections
SpecEquip == InitEquip /\ [][NextEquip]_vars

\* C25: after a run the equipment table holds exactly one row for each
\* device of the fetched rows, and that row carries the inspection date and
\* device status of a fetched row of the device with the latest date, in
\* whatever order the rows were fetched.
C25_SnapshotOfLatestInspection ==
    fn_state = "returned" =>
        \A i \in DOMAIN fn_arg :
            LET mine == SelectSeq(fn_arg, LAMBDA r : r.id = fn_arg[i].id)
                stored == Select(fn_result, LAMBDA row : row.device_number = fn_arg[i].id)
            IN  /\ Cardinality(stored) = 1
                /\ \A k \in stored :
                      \E j \in LatestRows(mine) :
                         /\ fn_result[k].last_inspection_date = Prefix10(mine[j].date)
                         /\ fn_result[k].device_status = mine[j].device_status

\* ----------------------------------------------- failures within a sync run
\* The requests of a run that can fail: the geocoder finds nothing, the
\* property row cannot be read or created, get_property_compliance raises,
\* the summary write raises, the last_synced_at update raises.
FaultPoints == {"identify", "property", "compliance", "summary_write", "stamp"}

\* sync_property_data as a function of the faults it meets and of the rows
\* whose write raises (failed_rows, indexes into items): what it returns
\* (success is Absent when the key is never set) and what it wrote
sync_property_data_outcome(faults, items, failed_rows) ==
    LET base == [success |-> Absent, errors |-> <<>>, children |-> {},
                 summary_written |-> FALSE, stamped |-> FALSE]
        \* steps 3 to 5: a row that raises is counted as skipped, the loop goes on
        after_children == [base EXCEPT !.children = {i \in DOMAIN items : items[i].key # ""}
                                                        \ failed_rows]
        \* _store_compliance_summary returns {'error': ...} instead of raising
        after_summary == [after_children EXCEPT
                             !.summary_written = "summary_write" \notin faults]
    IN  IF "identify" \in faults
        THEN [base EXCEPT !.errors = <<"Failed to identify property - no BIN/BBL found">>]
        ELSE IF "property" \in faults
        THEN [base EXCEPT !.errors = <<"Failed to create NYC property record">>]
        ELSE IF "compliance" \in faults
        THEN [after_children EXCEPT !.errors = <<"exception">>, !.success = "False"]
        ELSE IF "stamp" \in faults
        THEN [after_summary EXCEPT !.errors = <<"exception">>, !.success = "False"]
        ELSE [after_summary EXCEPT !.stamped = TRUE, !.success = "True"]

InitSyncFaults ==
    /\ InitPipeline /\ InitRisk /\ InitFetch /\ InitSyncIdle /\ InitHttp /\ InitLimiterIdle
    /\ \E faults \in SUBSET FaultPoints, items \in Worklists :
          \E failed_rows \in SUBSET (DOMAIN items) :
             fn_arg = [faults |-> faults, items |-> items, failed_rows |-> failed_rows]
    /\ fn_result = <<>>
    /\ fn_state = "called"

call_sync_property_data ==
    /\ fn_state = "called"
    /\ fn_result' = sync_property_data_outcome(fn_arg.faults, fn_arg.items, fn_arg.failed_rows)
    /\ fn_state' = "returned"
    /\ UNCHANGED <<pipelineVars, riskVars, fn_arg, fetch_log, syncVars, http, limiter>>

NextSyncFaults == call_sync_property_data
SpecSyncFaults == InitSyncFaults /\ [][NextSyncFaults]_vars

\* C26: a run whose compliance summary write fails does not return
\* success = True and names the failure in errors; a child row whose write
\* fails does not stop the run from writing the other rows and the summary.
C26_SummaryFailureReported ==
    fn_state = "returned" =>
        /\ ("summary_write" \in fn_arg.faults
              /\ fn_arg.faults \cap {"identify", "property", "compliance"} = {})
             => (fn_result.success # "True" /\ fn_result.errors # <<>>)
        /\ fn_arg.faults = {}
             => /\ fn_result.success = "True"
                /\ fn_result.summary_written
                /\ \A i \in DOMAIN fn_arg.items :
                      (i \notin fn_arg.failed_rows /\ fn_arg.items[i].key # "")
                         => i \in fn_result.children

\* --------------------------------------------------- the two retry loops
\* How a request can end, for both fetchers
RetryOutcomeKinds == {"ok", "timeout", "http_400", "http_429", "http_5xx", "request_exception"}
RetryOutcomes == [1..MaxAttempts -> {[kind |-> k, rows |-> <<>>] : k \in RetryOutcomeKinds}]
FetchedDatasets == {"hpd_violations", "electrical_permits", "fdny_violations"}
SimplifiedSelect == "filing_number, filing_date, filing_status, bin"
OriginalSelect == "filing_number, filing_date, filing_status, bin, job_description"

\* the params dict of NYC_data.get_data: one '$'-prefixed key for each
\* argument that is not None (select is NoneVal when not given)
build_params(select) ==
    [k \in {"$limit", "$offset"} \cup (IF select = NoneVal THEN {} ELSE {"$select"}) |->
        CASE k = "$limit" -> "1000" [] k = "$offset" -> "0" [] OTHER -> select]

\* the 400 branch of NYC_data.get_data: the select is replaced only when
\* the dict has a key 'select'
simplify_select(params) ==
    IF "select" \in DOMAIN params
    THEN [k \in DOMAIN params \cup {"$select"} |->
             IF k = "$select" THEN SimplifiedSelect ELSE params[k]]
    ELSE params

\* the params of each request NYC_data.get_data sends, from its attempt-th
\* pass on (0-based)
RECURSIVE get_data_sent(_, _, _, _)
get_data_sent(dataset_key, params, outcomes, attempt) ==
    LET o == outcomes[attempt + 1]
        retry == attempt < max_retries(dataset_key) - 1
    IN  IF o.kind = "timeout" /\ retry
        THEN <<params>> \o get_data_sent(dataset_key, params, outcomes, attempt + 1)
        ELSE IF o.kind = "http_400" /\ dataset_key = "electrical_permits" /\ retry
        THEN <<params>> \o get_data_sent(dataset_key, simplify_select(params), outcomes, attempt + 1)
        ELSE <<params>>

\* nyc_opendata_client._make_request from its attempt-th pass on: 429 and
\* 5xx go round the loop again, other HTTP errors are raised at once,
\* timeouts and connection errors are raised on the last pass; after the
\* loop an exception is raised.  Returns the number of requests made.
DefaultRetries == 3
RECURSIVE make_request(_, _, _)
make_request(outcomes, attempt, retries) ==
    IF attempt >= retries THEN [raised |-> TRUE, requests |-> attempt]
    ELSE LET o == outcomes[attempt + 1]
         IN  IF o.kind = "ok" THEN [raised |-> FALSE, requests |-> attempt + 1]
             ELSE IF o.kind \in {"http_429", "http_5xx"}
                  THEN make_request(outcomes, attempt + 1, retries)
             ELSE IF o.kind = "http_400" THEN [raised |-> TRUE, requests |-> attempt + 1]
             ELSE IF attempt < retries - 1 THEN make_request(outcomes, attempt + 1, retries)
             ELSE [raised |-> TRUE, requests |-> attempt + 1]

\* a fetch through one of the two fetchers: the requests it made
fetch_requests(fetcher, dataset_key, select, outcomes) ==
    IF fetcher = "NYC_data"
    THEN [requests |-> get_data(dataset_key, outcomes).requests,
          sent |-> get_data_sent(dataset_key, build_params(select), outcomes, 0)]
    ELSE [requests |-> make_request(outcomes, 0, DefaultRetries).requests,
          sent |-> <<>>]

InitRetry ==
    /\ InitPipeline /\ InitRisk /\ InitFetch /\ InitSyncIdle /\ InitHttp /\ InitLimiterIdle
    /\ \E fetcher \in {"NYC_data", "nyc_opendata_client"}, dataset_key \in FetchedDatasets,
          select \in {NoneVal, OriginalSelect}, outcomes \in RetryOutcomes :
             fn_arg = [fetcher |-> fetcher, dataset_key |-> dataset_key,
                       select |-> select, outcomes |-> outcomes]
    /\ fn_result = <<>>
    /\ fn_state = "called"

call_fetch ==
    /\ fn_state = "called"
    /\ fn_result' = fetch_requests(fn_arg.fetcher, fn_arg.dataset_key, fn_arg.select,
                                   fn_arg.outcomes)
    /\ fn_state' = "returned"
    /\ UNCHANGED <<pipelineVars, riskVars, fn_arg, fetch_log, syncVars, http, limiter>>

NextRetry == call_fetch
SpecRetry == InitRetry /\ [][NextRetry]_vars

\* C27: a fetch makes at most three requests for electrical_permits and
\* the fdny_ datasets and at most one for any other dataset, whatever the
\* upstream answers.
C27_RequestsBounded ==
    fn_state = "returned" =>
        fn_result.requests <= (IF fn_arg.dataset_key \in RetriedDatasets THEN 3 ELSE 1)

\* C28: an electrical_permits request with a select clause that is answered
\* with 400 is retried with the simplified column list as its select, and a
\* second 400 ends the fetch after two requests.
C28_SimplifiedSelectRetry ==
    (/\ fn_state = "returned"
     /\ fn_arg.fetcher = "NYC_data"
     /\ fn_arg.dataset_key = "electrical_permits"
     /\ fn_arg.select # NoneVal
     /\ fn_arg.outcomes[1].kind = "http_400") =>
        /\ Len(fn_result.sent) >= 2
        /\ fn_result.sent[2]["$select"] = SimplifiedSelect
        /\ fn_arg.outcomes[2].kind = "http_400" => Len(fn_result.sent) = 2

\* ------------------------------------------------------- the rate limiter
\* Time is counted in ticks, TicksPerSecond to the second.
TicksPerSecond == 2
max_requests_per_second(app_token) == IF app_token THEN 10 ELSE 2
Callers == 1..MaxCallers

InitLimiter ==
    /\ InitPipeline /\ InitRisk /\ InitFn /\ InitFetch /\ InitSyncIdle /\ InitHttp
    /\ \E app_token \in BOOLEAN : limiter = NewClient(app_token)

\* requests sent or about to be sent
InFlight == Cardinality({t \in Callers : limiter.callers[t].pc # "idle"})

\* _rate_limit up to the increment: the caller reads the clock, the window
\* start and the counter; within the window it sleeps when the counter has
\* reached the maximum, outside it starts a new window
rate_limit_check(t) ==
    /\ limiter.callers[t].pc = "idle"
    /\ Len(limiter.admitted) + InFlight < MaxRequests
    /\ LET time_since_last == limiter.clock - limiter.last_request_time
       IN  IF time_since_last < TicksPerSecond
           THEN IF limiter.request_count >= max_requests_per_second(limiter.app_token)
                THEN limiter' = [limiter EXCEPT
                                    !.callers[t].pc = "sleep",
                                    !.callers[t].wake = limiter.clock + TicksPerSecond - time_since_last]
                ELSE limiter' = [limiter EXCEPT !.callers[t].pc = "load"]
           ELSE limiter' = [limiter EXCEPT !.request_count = 0,
                                           !.last_request_time = limiter.clock,
                                           !.callers[t].pc = "load"]
    /\ UNCHANGED <<pipelineVars, riskVars, fnVars, fetch_log, syncVars, http>>

\* the caller wakes after its sleep and starts a new window
rate_limit_wake(t) ==
    /\ limiter.callers[t].pc = "sleep"
    /\ limiter.clock >= limiter.callers[t].wake
    /\ limiter' = [limiter EXCEPT !.request_count = 0,
                                  !.last_request_time = limiter.clock,
                                  !.callers[t].pc = "load"]
    /\ UNCHANGED <<pipelineVars, riskVars, fnVars, fetch_log, syncVars, http>>

\* self.request_count += 1 is a read followed by a write, with no lock
rate_limit_load(t) ==
    /\ limiter.callers[t].pc = "load"
    /\ limiter' = [limiter EXCEPT !.callers[t].loaded = limiter.request_count,
                                  !.callers[t].pc = "store"]
    /\ UNCHANGED <<pipelineVars, riskVars, fnVars, fetch_log, syncVars, http>>

rate_limit_store(t) ==
    /\ limiter.callers[t].pc = "store"
    /\ limiter' = [limiter EXCEPT !.request_count = limiter.callers[t].loaded + 1,
                                  !.callers[t].pc = "send"]
    /\ UNCHANGED <<pipelineVars, riskVars, fnVars, fetch_log, syncVars, http>>

\* _make_request sends the request the limiter has let through
session_get(t) ==
    /\ limiter.callers[t].pc = "send"
    /\ limiter' = [limiter EXCEPT
                      !.admitted = Append(@, [time |-> limiter.clock, limited |-> TRUE]),
                      !.callers[t] = IdleCaller]
    /\ UNCHANGED <<pipelineVars, riskVars, fnVars, fetch_log, syncVars, http>>

\* a request of the orchestrator: NYC_data.get_data calls session.get
\* directly
nyc_data_session_get ==
    /\ Len(limiter.admitted) + InFlight < MaxRequests
    /\ limiter' = [limiter EXCEPT
                      !.admitted = Append(@, [time |-> limiter.clock, limited |-> FALSE])]
    /\ UNCHANGED <<pipelineVars, riskVars, fnVars, fetch_log, syncVars, http>>

tick ==
    /\ limiter.clock < MaxClock
    /\ limiter' = [limiter EXCEPT !.clock = @ + 1]
    /\ UNCHANGED <<pipelineVars, riskVars, fnVars, fetch_log, syncVars, http>>

NextLimiter ==
    \/ \E t \in Callers :
          \/ rate_limit_check(t)
          \/ rate_limit_wake(t)
          \/ rate_limit_load(t)
          \/ rate_limit_store(t)
          \/ session_get(t)
    \/ nyc_data_session_get
    \/ tick

SpecLimiter == InitLimiter /\ [][NextLimiter]_vars

\* the requests of the shared client sent within the second that starts at w
AdmittedIn(w) ==
    {i \in DOMAIN limiter.admitted :
        /\ limiter.admitted[i].limited
        /\ limiter.admitted[i].time >= w
        /\ limiter.admitted[i].time < w + TicksPerSecond}

\* C29: in every interleaving of the callers of one client at most R
\* requests are sent within any one second (R = 10 with an app token, 2
\* without), the counter never exceeds R, and every request, those of the
\* orchestrator included, has passed through the limiter.
C29_RateBounded ==
    /\ \A w \in 0..MaxClock :
          Cardinality(AdmittedIn(w)) <= max_requests_per_second(limiter.app_token)
    /\ limiter.request_count <= max_requests_per_second(limiter.app_token)
    /\ \A i \in DOMAIN limiter.admitted : limiter.admitted[i].limited

\* C30: the BIN stored on the nyc_properties row of a run, which is also
\* the BIN of its equipment fetch and of its summary calculation, is the
\* BIN of the identifiers the run resolved at its start, which its HPD and
\* DOB searches use.
C30_OneSetOfIdentifiers ==
    \A r \in Runs :
        runs[r].nyc_property_id # 0 =>
            db.nyc_properties[runs[r].nyc_property_id].bin = upstream.bin

====
